---- MODULE Spec2Model ----
(***************************************************************************)
(* A model of the desktop-entry parser of src/src/parser.rs.               *)
(*                                                                         *)
(* Text is a sequence of one-character strings.  parse(input) is modelled  *)
(* as the loop it is: FilterLines classifies the input, one action per    *)
(* match arm of the scan loop consumes the next line, CheckEntry validates *)
(* and returns.  A ParseError, a panic or a DesktopFile ends up in result. *)
(***************************************************************************)
EXTENDS Integers, Sequences, FiniteSets, TLC

VARIABLES
    doc,             \* the lines the input text was written from (ghost)
    input,           \* the argument of parse: the text, "\n" between lines
    pc,              \* "start", "scan" or "done"
    lines,           \* the classified lines still to be scanned
    result_entry,    \* the primary record being filled
    is_entry_found,  \* parse's flag of that name
    is_first_entry,  \* parse's flag of that name
    result_actions,  \* the sub-records, in order of their headers
    current_target,  \* the cursor: the entry, or the index of an action
    result,          \* <<>> while parsing, then <<the value parse returns>>
    returned,        \* what the earlier calls of parse were given and returned
    lookup           \* a call of get_variant: its arguments and what it returned

\* what a caller of the library holds; no code of parse reads or writes it
caller == <<returned, lookup>>

vars == <<doc, input, pc, lines, result_entry, is_entry_found, is_first_entry,
          result_actions, current_target, result, returned, lookup>>

(***************************************************************************)
(* Option, Result and String                                               *)
(***************************************************************************)
None == <<>>
Some(v) == <<v>>
is_none(opt) == opt = <<>>
unwrap(opt) == opt[1]

Ok(v) == [ok |-> TRUE, val |-> v]
Err(e) == [ok |-> FALSE, err |-> e]

\* The String a sequence of characters spells.
RECURSIVE Str(_)
Str(s) == IF s = <<>> THEN "" ELSE Head(s) \o Str(Tail(s))

\* char::is_whitespace and char::is_control, over the characters of the model
WhiteSpace == {" ", "\t", "\r", "\f", "\n"}
Control == {"\t", "\r", "\f", "\n"}

RECURSIVE trim_end(_)
trim_end(s) ==
    IF s # <<>> /\ s[Len(s)] \in WhiteSpace
    THEN trim_end(SubSeq(s, 1, Len(s) - 1))
    ELSE s

RECURSIVE trim_start(_)
trim_start(s) ==
    IF s # <<>> /\ Head(s) \in WhiteSpace THEN trim_start(Tail(s)) ELSE s

trim(s) == trim_start(trim_end(s))

starts_with(s, ch) == s # <<>> /\ Head(s) = ch

\* str::split(sep): the pieces between the separators; no separator, one piece
RECURSIVE split(_, _)
split(s, sep) ==
    IF \A i \in 1..Len(s) : s[i] # sep
    THEN <<s>>
    ELSE LET i == CHOOSE k \in 1..Len(s) :
                      s[k] = sep /\ \A j \in 1..(k - 1) : s[j] # sep
         IN  <<SubSeq(s, 1, i - 1)>> \o split(SubSeq(s, i + 1, Len(s)), sep)

\* HashMap::insert
insert(map, key, value) ==
    [k \in DOMAIN map \cup {key} |-> IF k = key THEN value ELSE map[k]]

contains_key(map, key) == key \in DOMAIN map

(***************************************************************************)
(* ParseError                                                              *)
(***************************************************************************)
UnacceptableCharacter(ch, row, col) ==
    [kind |-> "UnacceptableCharacter", ch |-> ch, row |-> row, col |-> col]
Syntax(row, col) == [kind |-> "Syntax", row |-> row, col |-> col]
RepetitiveEntry(row, col) == [kind |-> "RepetitiveEntry", row |-> row, col |-> col]
FormatError(row, col) == [kind |-> "FormatError", row |-> row, col |-> col]
InternalError(row, col) == [kind |-> "InternalError", row |-> row, col |-> col]
RepetitiveKey(key, row, col) ==
    [kind |-> "RepetitiveKey", key |-> key, row |-> row, col |-> col]
KeyError(msg) == [kind |-> "KeyError", msg |-> msg]

(***************************************************************************)
(* Line Classifier                                                         *)
(***************************************************************************)
\* Line::from_data: trailing whitespace trimmed, every character with its
\* column, a space in column 0 dropped.  (Columns are byte offsets; the
\* model's characters are one byte each.)
from_data(line, line_number) ==
    LET t == trim_end(line)
        chars == [i \in 1..Len(t) |->
                     [content |-> t[i], line_number |-> line_number,
                      col_number |-> i - 1]]
        kept(ch) == ~(ch.col_number = 0 /\ ch.content = " ")
    IN  [content |-> SelectSeq(chars, kept), line_number |-> line_number]

\* Line::line_type; indexing content[0] of an empty line panics
line_type(line) ==
    IF line.content = <<>> THEN "panic"
    ELSE IF line.content[1].content = "[" THEN "Header"
    ELSE "ValPair"

\* Line::to_string
to_string(line) == [i \in 1..Len(line.content) |-> line.content[i].content]

\* filter_lines from piece i on; enumerate() numbers the pieces from 0
RECURSIVE filter_from(_, _)
filter_from(pieces, i) ==
    IF i > Len(pieces) THEN <<>>
    ELSE (IF pieces[i] # <<>> /\ ~starts_with(trim(pieces[i]), "#")
          THEN <<from_data(pieces[i], i - 1)>>
          ELSE <<>>) \o filter_from(pieces, i + 1)

filter_lines(text) == filter_from(split(text, "\n"), 1)

(***************************************************************************)
(* Header Parser                                                           *)
(***************************************************************************)
DesktopActionPrefix ==
    <<"D", "e", "s", "k", "t", "o", "p", " ", "A", "c", "t", "i", "o", "n", " ">>

\* str::strip_prefix
strip_prefix(s, prefix) ==
    IF Len(s) >= Len(prefix) /\ SubSeq(s, 1, Len(prefix)) = prefix
    THEN Some(SubSeq(s, Len(prefix) + 1, Len(s)))
    ELSE None

\* header_of as it would be if `Desktop Action` without its trailing space
\* were the prefix of an action header
header_of_short_prefix(name) ==
    LET short == SubSeq(DesktopActionPrefix, 1, Len(DesktopActionPrefix) - 1)
    IN  IF Str(name) = "Desktop Entry" THEN [kind |-> "DesktopEntry"]
        ELSE IF ~is_none(strip_prefix(name, short))
        THEN [kind |-> "DesktopAction",
              name |-> unwrap(strip_prefix(name, short))]
        ELSE [kind |-> "Other", name |-> name]

\* the tail of parse_header: the bracketed name to a Header
header_of(name) ==
    IF Str(name) = "Desktop Entry" THEN [kind |-> "DesktopEntry"]
    ELSE IF ~is_none(strip_prefix(name, DesktopActionPrefix))
    THEN [kind |-> "DesktopAction",
          name |-> unwrap(strip_prefix(name, DesktopActionPrefix))]
    ELSE [kind |-> "Other", name |-> name]

\* the loop of parse_header at character ind (0-based, as enumerate())
RECURSIVE header_loop(_, _, _, _)
header_loop(content, ind, state, name) ==
    IF ind = Len(content) THEN Ok(header_of(name))
    ELSE LET ch == content[ind + 1] IN
         IF state = "Idle"
         THEN IF ch.content = "["
              THEN header_loop(content, ind + 1, "Content", name)
              ELSE Err(InternalError(ch.line_number, ch.col_number))
         ELSE IF ch.content = "]"
              THEN IF ind # Len(content) - 1
                   THEN Err(Syntax(ch.line_number, ch.col_number))
                   ELSE header_loop(content, ind + 1, state, name)
         ELSE IF ch.content = "["
              THEN Err(UnacceptableCharacter(ch.content, ch.line_number,
                                             ch.col_number))
         ELSE IF ch.content \in Control
              THEN Err(UnacceptableCharacter(ch.content, ch.line_number,
                                             ch.col_number))
         ELSE header_loop(content, ind + 1, state, Append(name, ch.content))

parse_header(line) == header_loop(line.content, 0, "Idle", <<>>)

(***************************************************************************)
(* KeyValue Tokenizer                                                      *)
(***************************************************************************)
KeyChars ==
    {"A", "B", "C", "D", "E", "F", "G", "H", "I", "J", "K", "L", "M",
     "N", "O", "P", "Q", "R", "S", "T", "U", "V", "W", "X", "Y", "Z",
     "a", "b", "c", "d", "e", "f", "g", "h", "i", "j", "k", "l", "m",
     "n", "o", "p", "q", "r", "s", "t", "u", "v", "w", "x", "y", "z",
     "1", "2", "3", "4", "5", "6", "7", "8", "9", "0", "-"}

\* the loop of split_into_parts from character i on
RECURSIVE parts_loop(_, _, _, _)
parts_loop(content, i, state, part) ==
    IF i > Len(content) THEN Ok(part)
    ELSE LET ch == content[i] IN
         IF state = "Key"
         THEN IF ch.content = "["
              THEN parts_loop(content, i + 1, "KeyLocale",
                              [part EXCEPT !.locale = Some(<<>>)])
              ELSE IF ch.content = "="
              THEN parts_loop(content, i + 1, "Value", part)
              ELSE IF ch.content \in KeyChars
              THEN parts_loop(content, i + 1, state,
                              [part EXCEPT !.key = Append(@, ch.content)])
              ELSE Err(Syntax(ch.line_number, ch.col_number))
         ELSE IF state = "KeyLocale"
         THEN IF ch.content = "]"
              THEN parts_loop(content, i + 1, "LocaleToValue", part)
              ELSE parts_loop(content, i + 1, state,
                       [part EXCEPT !.locale = Some(Append(unwrap(@), ch.content))])
         ELSE IF state = "LocaleToValue"
         THEN IF ch.content = "="
              THEN parts_loop(content, i + 1, "Value", part)
              ELSE Err(Syntax(ch.line_number, ch.col_number))
         ELSE parts_loop(content, i + 1, state,
                         [part EXCEPT !.value = Append(@, ch.content)])

\* split_into_parts as it would be if a '#' in the value started a comment
split_into_parts_commenting(line) ==
    LET r == parts_loop(line.content, 1, "Key",
                        [key |-> <<>>, locale |-> None, value |-> <<>>,
                         line_number |-> line.line_number])
        cut(v) == IF \A i \in DOMAIN v : v[i] # "#" THEN v
                  ELSE SubSeq(v, 1, (CHOOSE i \in DOMAIN v :
                                        /\ v[i] = "#"
                                        /\ \A k \in 1..(i - 1) : v[k] # "#") - 1)
    IN  IF r.ok THEN Ok([r.val EXCEPT !.value = cut(@)]) ELSE r

split_into_parts(line) ==
    parts_loop(line.content, 1, "Key",
               [key |-> <<>>, locale |-> None, value |-> <<>>,
                line_number |-> line.line_number])

(***************************************************************************)
(* The records parse fills.  parser.rs reads and writes every field as an  *)
(* Option, the shape the *Internal structs of internal_structs.rs have.    *)
(***************************************************************************)
\* LocaleString::default() and LocaleStringList::default()
LocaleString_default == [default |-> None, variants |-> <<>>]

\* DesktopEntry::default()
DesktopEntry_default ==
    [entry_type |-> None, version |-> None, name |-> None,
     generic_name |-> None, no_display |-> None, comment |-> None,
     icon |-> None, hidden |-> None, only_show_in |-> None,
     not_show_in |-> None, dbus_activatable |-> None, try_exec |-> None,
     exec |-> None, path |-> None, terminal |-> None, actions |-> None,
     mime_type |-> None, categories |-> None, implements |-> None,
     keywords |-> None, startup_notify |-> None, startup_wm_class |-> None,
     url |-> None, prefers_non_default_gpu |-> None,
     single_main_window |-> None]

\* DesktopAction { ref_name: name, ..Default::default() }
DesktopAction_new(name) ==
    [ref_name |-> name, name |-> None, exec |-> None, icon |-> None]

\* crate::EntryType::from(&str), the conversion parser.rs:371 calls: the
\* Unknown variant of the public enum has no payload, the tag is dropped.
\* (The type-specific fields of Application and Link are not filled by
\* parser.rs, which matches Link as a unit variant, and are left out.)
EntryType_from(value) ==
    IF Str(value) = "Application" THEN [kind |-> "Application"]
    ELSE IF Str(value) = "Link" THEN [kind |-> "Link"]
    ELSE IF Str(value) = "Directory" THEN [kind |-> "Directory"]
    ELSE [kind |-> "Unknown"]

(***************************************************************************)
(* Value Coercers: each returns Ok(the field's new value) or Err(error)    *)
(***************************************************************************)
\* set_locale_str as it would be if a repeated locale overwrote the variant
set_locale_str_overwriting(parts, str) ==
    IF ~is_none(parts.locale)
    THEN Ok([str EXCEPT
               !.variants = insert(@, unwrap(parts.locale), parts.value)])
    ELSE IF is_none(str.default)
         THEN Ok([str EXCEPT !.default = Some(parts.value)])
         ELSE Err(RepetitiveKey(Str(parts.key), parts.line_number, 0))

set_locale_str(parts, str) ==
    IF ~is_none(parts.locale)
    THEN IF contains_key(str.variants, unwrap(parts.locale))
         THEN Err(RepetitiveKey(Str(parts.key), parts.line_number, 0))
         ELSE Ok([str EXCEPT
                    !.variants = insert(@, unwrap(parts.locale), parts.value)])
    ELSE IF is_none(str.default)
         THEN Ok([str EXCEPT !.default = Some(parts.value)])
         ELSE Err(RepetitiveKey(Str(parts.key), parts.line_number, 0))

set_optional_locale_str(parts, opt) ==
    LET r == set_locale_str(parts, IF is_none(opt) THEN LocaleString_default
                                   ELSE unwrap(opt))
    IN  IF r.ok THEN Ok(Some(r.val)) ELSE r

\* str::parse::<bool>() accepts "true" and "false" and nothing else
set_bool(parts) ==
    IF Str(parts.value) = "true" THEN Ok(TRUE)
    ELSE IF Str(parts.value) = "false" THEN Ok(FALSE)
    ELSE Err(Syntax(parts.line_number, 0))

set_optional_bool(parts, opt) ==
    IF ~is_none(opt)
    THEN Err(RepetitiveKey(Str(parts.key), parts.line_number, 0))
    ELSE LET r == set_bool(parts) IN IF r.ok THEN Ok(Some(r.val)) ELSE r

set_optional_list(parts, opt) ==
    IF ~is_none(opt)
    THEN Err(RepetitiveKey(Str(parts.key), parts.line_number, 0))
    ELSE Ok(Some(split(parts.value, ",")))

set_optional_str(parts, opt) ==
    IF ~is_none(opt)
    THEN Err(RepetitiveKey(Str(parts.key), parts.line_number, 0))
    ELSE Ok(Some(parts.value))

set_optional_icon_str(parts, opt) ==
    IF ~is_none(opt)
    THEN Err(RepetitiveKey(Str(parts.key), parts.line_number, 0))
    ELSE Ok(Some([content |-> parts.value]))

\* the "Type" arm of fill_entry_val
set_entry_type(parts, opt) ==
    IF ~is_none(opt)
    THEN Err(RepetitiveKey("Type", parts.line_number, 0))
    ELSE Ok(Some(EntryType_from(parts.value)))

\* the match on entry.keywords in the "Keywords" arm of fill_entry_val
put_keywords(parts, opt, splitted) ==
    IF ~is_none(opt)
    THEN IF ~is_none(parts.locale)
         THEN IF contains_key(unwrap(opt).variants, unwrap(parts.locale))
              THEN Err(RepetitiveKey("Keywords", parts.line_number, 0))
              ELSE Ok(Some([unwrap(opt) EXCEPT
                      !.variants = insert(@, unwrap(parts.locale), splitted)]))
         ELSE IF ~is_none(unwrap(opt).default)
              THEN Err(RepetitiveKey("Keywords", parts.line_number, 0))
              ELSE Ok(Some([unwrap(opt) EXCEPT !.default = Some(splitted)]))
    ELSE IF ~is_none(parts.locale)
         THEN Ok(Some([LocaleString_default EXCEPT
                  !.variants = insert(@, unwrap(parts.locale), splitted)]))
         ELSE Ok(Some([LocaleString_default EXCEPT !.default = Some(splitted)]))

\* the "Keywords" arm of fill_entry_val: the guard, the split, the match
set_keywords(parts, opt) ==
    IF ~is_none(opt)
    THEN Err(RepetitiveKey("Keywords", parts.line_number, 0))
    ELSE put_keywords(parts, opt, split(parts.value, ","))

\* `field = setter(...)?`: the record with the field set, or the error
with_field(record, name, r) ==
    IF r.ok THEN Ok([record EXCEPT ![name] = r.val]) ELSE r

fill_entry_val(entry, parts) ==
    LET key == Str(parts.key)
        str(f) == with_field(entry, f, set_optional_str(parts, entry[f]))
        bool(f) == with_field(entry, f, set_optional_bool(parts, entry[f]))
        list(f) == with_field(entry, f, set_optional_list(parts, entry[f]))
        locale(f) ==
            with_field(entry, f, set_optional_locale_str(parts, entry[f]))
    IN  CASE key = "Type" ->
                 with_field(entry, "entry_type",
                            set_entry_type(parts, entry.entry_type))
          [] key = "Version" -> str("version")
          [] key = "Name" -> locale("name")
          [] key = "GenericName" -> locale("generic_name")
          [] key = "NoDisplay" -> bool("no_display")
          [] key = "Comment" -> locale("comment")
          [] key = "Icon" ->
                 with_field(entry, "icon",
                            set_optional_icon_str(parts, entry.icon))
          [] key = "Hidden" -> bool("hidden")
          [] key = "OnlyShowIn" -> list("only_show_in")
          [] key = "DbusActivatable" -> bool("dbus_activatable")
          [] key = "TryExec" -> str("try_exec")
          [] key = "Exec" -> str("exec")
          [] key = "Path" -> str("path")
          [] key = "Terminal" -> bool("terminal")
          [] key = "Actions" -> list("actions")
          [] key = "MimeType" -> list("mime_type")
          [] key = "Categories" -> list("categories")
          [] key = "Implements" -> list("implements")
          [] key = "Keywords" ->
                 with_field(entry, "keywords",
                            set_keywords(parts, entry.keywords))
          [] key = "StarupNotify" -> bool("startup_notify")
          [] key = "StartupWmClass" -> str("startup_wm_class")
          [] key = "URL" -> str("url")
          [] key = "PrefersNonDefaultGPU" -> bool("prefers_non_default_gpu")
          [] key = "SingleMainWindow" -> bool("single_main_window")
          [] OTHER -> Ok(entry)

process_entry_val_pair(line, entry) ==
    LET parts == split_into_parts(line)
    IN  IF parts.ok THEN fill_entry_val(entry, parts.val) ELSE parts

fill_action_val(action, parts) ==
    LET key == Str(parts.key)
    IN  CASE key = "Name" ->
                 with_field(action, "name",
                            set_optional_locale_str(parts, action.name))
          [] key = "Exec" ->
                 with_field(action, "exec",
                            set_optional_str(parts, action.exec))
          [] key = "Icon" ->
                 with_field(action, "icon",
                            set_optional_icon_str(parts, action.icon))
          [] OTHER -> Ok(action)

process_action_val_pair(line, action) ==
    LET parts == split_into_parts(line)
    IN  IF parts.ok THEN fill_action_val(action, parts.val) ELSE parts

(***************************************************************************)
(* Validator                                                               *)
(***************************************************************************)
key_err(msg) == Err(KeyError(msg))

\* check_locale_str as it would be if a localized string needed no default
check_locale_str_lenient(opt, field) == Ok(TRUE)

check_locale_str(opt, field) ==
    IF ~is_none(opt) /\ is_none(unwrap(opt).default)
    THEN key_err("The default value of " \o field \o " is required")
    ELSE Ok(TRUE)

\* check_entry as it would be if it asked for Exec as it asks for Name
check_entry_requiring_exec(entry) ==
    IF is_none(entry.entry_type) THEN key_err("Type is required")
    ELSE IF is_none(entry.name) \/ is_none(entry.exec)
    THEN key_err("Name is required")
    ELSE IF is_none(unwrap(entry.name).default)
    THEN key_err("The default value of name is required")
    ELSE Ok(TRUE)

\* check_entry as it would be if it asked every type for a URL
check_entry_url_for_all(entry) ==
    IF is_none(entry.entry_type) THEN key_err("Type is required")
    ELSE IF is_none(entry.name) THEN key_err("Name is required")
    ELSE IF is_none(unwrap(entry.name).default)
    THEN key_err("The default value of name is required")
    ELSE IF is_none(entry.url)
    THEN key_err("URL is required for Link")
    ELSE IF ~check_locale_str(entry.generic_name, "GenericName").ok
    THEN check_locale_str(entry.generic_name, "GenericName")
    ELSE check_locale_str(entry.comment, "Comment")

\* check_entry as it would be if it looked at the name before the type
check_entry_name_first(entry) ==
    IF is_none(entry.name) THEN key_err("Name is required")
    ELSE IF is_none(unwrap(entry.name).default)
    THEN key_err("The default value of name is required")
    ELSE IF is_none(entry.entry_type) THEN key_err("Type is required")
    ELSE IF unwrap(entry.entry_type).kind = "Link" /\ is_none(entry.url)
    THEN key_err("URL is required for Link")
    ELSE IF ~check_locale_str(entry.generic_name, "GenericName").ok
    THEN check_locale_str(entry.generic_name, "GenericName")
    ELSE check_locale_str(entry.comment, "Comment")

\* check_entry as it would be if a name of locale variants alone were enough
check_entry_any_name(entry) ==
    IF is_none(entry.entry_type) THEN key_err("Type is required")
    ELSE IF is_none(entry.name) THEN key_err("Name is required")
    ELSE IF unwrap(entry.entry_type).kind = "Link" /\ is_none(entry.url)
    THEN key_err("URL is required for Link")
    ELSE IF ~check_locale_str(entry.generic_name, "GenericName").ok
    THEN check_locale_str(entry.generic_name, "GenericName")
    ELSE check_locale_str(entry.comment, "Comment")

check_entry(entry) ==
    IF is_none(entry.entry_type) THEN key_err("Type is required")
    ELSE IF is_none(entry.name) THEN key_err("Name is required")
    ELSE IF is_none(unwrap(entry.name).default)
    THEN key_err("The default value of name is required")
    ELSE IF unwrap(entry.entry_type).kind = "Link" /\ is_none(entry.url)
    THEN key_err("URL is required for Link")
    ELSE IF ~check_locale_str(entry.generic_name, "GenericName").ok
    THEN check_locale_str(entry.generic_name, "GenericName")
    ELSE check_locale_str(entry.comment, "Comment")

(***************************************************************************)
(* parse: the Assembler State Machine                                      *)
(***************************************************************************)
Entry == [kind |-> "Entry"]
Action(index) == [kind |-> "Action", index |-> index]

\* DesktopFile { entry, actions }
DesktopFile(entry, actions) == [entry |-> entry, actions |-> actions]

\* indexing result_actions or an empty line out of bounds unwinds parse
Panic == [ok |-> FALSE, err |-> [kind |-> "panic"]]

\* let lines = filter_lines(input);
FilterLines ==
    /\ pc = "start"
    /\ lines' = filter_lines(input)
    /\ pc' = "scan"
    /\ UNCHANGED <<caller, doc, input, result_entry, is_entry_found, is_first_entry,
                   result_actions, current_target, result>>

\* line.line_type() on a line with no character left
LineTypePanic ==
    /\ pc = "scan"
    /\ lines # <<>>
    /\ line_type(Head(lines)) = "panic"
    /\ pc' = "done"
    /\ result' = Some(Panic)
    /\ UNCHANGED <<caller, doc, input, lines, result_entry, is_entry_found,
                   is_first_entry, result_actions, current_target>>

\* EntryType::Entry, LineType::Header
EntryHeader ==
    /\ pc = "scan"
    /\ lines # <<>>
    /\ current_target.kind = "Entry"
    /\ line_type(Head(lines)) = "Header"
    /\ LET line == Head(lines)
           header == parse_header(line)
           kind == IF header.ok THEN header.val.kind ELSE "Err"
           error ==
               IF ~header.ok THEN Some(header.err)
               ELSE IF kind = "DesktopEntry" /\ is_entry_found
               THEN Some(RepetitiveEntry(line.line_number, 0))
               ELSE IF kind = "DesktopEntry" /\ ~is_first_entry
               THEN Some(InternalError(line.line_number, 0))
               ELSE IF kind = "DesktopAction" /\ ~is_entry_found
               THEN Some(InternalError(line.line_number, 0))
               ELSE IF kind = "DesktopAction" /\ is_first_entry
               THEN Some(FormatError(line.line_number, 0))
               ELSE None
       IN  /\ is_entry_found' = (is_entry_found \/ kind = "DesktopEntry")
           /\ is_first_entry' =
                  (is_first_entry /\ ~(kind = "DesktopEntry" /\ is_none(error)))
           /\ result_actions' =
                  IF kind = "DesktopAction" /\ is_none(error)
                  THEN Append(result_actions, DesktopAction_new(header.val.name))
                  ELSE result_actions
           /\ current_target' =
                  IF kind = "DesktopAction" /\ is_none(error)
                  THEN Action(Len(result_actions') - 1)
                  ELSE current_target
           /\ lines' = IF is_none(error) THEN Tail(lines) ELSE lines
           /\ pc' = IF is_none(error) THEN "scan" ELSE "done"
           /\ result' = IF is_none(error) THEN result ELSE Some(Err(unwrap(error)))
    /\ UNCHANGED <<caller, doc, input, result_entry>>

\* EntryValPair as it would be if a line in error were dropped and the scan
\* went on
EntryValPair_skipping ==
    /\ pc = "scan"
    /\ lines # <<>>
    /\ current_target.kind = "Entry"
    /\ line_type(Head(lines)) = "ValPair"
    /\ LET filled == process_entry_val_pair(Head(lines), result_entry)
       IN  /\ result_entry' = IF filled.ok THEN filled.val ELSE result_entry
           /\ lines' = Tail(lines)
           /\ pc' = "scan"
           /\ result' = result
    /\ UNCHANGED <<caller, doc, input, is_entry_found, is_first_entry,
                   result_actions, current_target>>

\* EntryType::Entry, LineType::ValPair
EntryValPair ==
    /\ pc = "scan"
    /\ lines # <<>>
    /\ current_target.kind = "Entry"
    /\ line_type(Head(lines)) = "ValPair"
    /\ LET filled == process_entry_val_pair(Head(lines), result_entry)
       IN  /\ result_entry' = IF filled.ok THEN filled.val ELSE result_entry
           /\ lines' = IF filled.ok THEN Tail(lines) ELSE lines
           /\ pc' = IF filled.ok THEN "scan" ELSE "done"
           /\ result' = IF filled.ok THEN result ELSE Some(filled)
    /\ UNCHANGED <<caller, doc, input, is_entry_found, is_first_entry, result_actions,
                   current_target>>

\* ActionHeader as it would be if a header that is neither the entry's nor
\* an action's ended the action group and gave the cursor back to the entry
ActionHeader_leaving ==
    /\ pc = "scan"
    /\ lines # <<>>
    /\ current_target.kind = "Action"
    /\ line_type(Head(lines)) = "Header"
    /\ LET line == Head(lines)
           header == parse_header(line)
           kind == IF header.ok THEN header.val.kind ELSE "Err"
           error ==
               IF ~header.ok THEN Some(header.err)
               ELSE IF kind = "DesktopEntry"
               THEN Some(RepetitiveEntry(line.line_number, 0))
               ELSE None
       IN  /\ result_actions' =
                  IF kind = "DesktopAction"
                  THEN Append(result_actions, DesktopAction_new(header.val.name))
                  ELSE result_actions
           /\ current_target' =
                  IF kind = "DesktopAction"
                  THEN Action(Len(result_actions') - 1)
                  ELSE IF kind = "Other" THEN Entry
                  ELSE current_target
           /\ lines' = IF is_none(error) THEN Tail(lines) ELSE lines
           /\ pc' = IF is_none(error) THEN "scan" ELSE "done"
           /\ result' = IF is_none(error) THEN result ELSE Some(Err(unwrap(error)))
    /\ UNCHANGED <<caller, doc, input, result_entry, is_entry_found, is_first_entry>>

\* ActionHeader as it would be if a header whose ref_name a sub-record
\* already has reset that sub-record and moved the cursor to it
ActionHeader_replacing ==
    /\ pc = "scan"
    /\ lines # <<>>
    /\ current_target.kind = "Action"
    /\ line_type(Head(lines)) = "Header"
    /\ LET line == Head(lines)
           header == parse_header(line)
           kind == IF header.ok THEN header.val.kind ELSE "Err"
           error ==
               IF ~header.ok THEN Some(header.err)
               ELSE IF kind = "DesktopEntry"
               THEN Some(RepetitiveEntry(line.line_number, 0))
               ELSE None
           same == IF kind = "DesktopAction"
                   THEN {i \in DOMAIN result_actions :
                             result_actions[i].ref_name = header.val.name}
                   ELSE {}
       IN  /\ result_actions' =
                  IF same # {}
                  THEN [i \in DOMAIN result_actions |->
                           IF i \in same
                           THEN DesktopAction_new(header.val.name)
                           ELSE result_actions[i]]
                  ELSE IF kind = "DesktopAction"
                  THEN Append(result_actions, DesktopAction_new(header.val.name))
                  ELSE result_actions
           /\ current_target' =
                  IF same # {}
                  THEN Action((CHOOSE i \in same : TRUE) - 1)
                  ELSE IF kind = "DesktopAction"
                  THEN Action(Len(result_actions') - 1)
                  ELSE current_target
           /\ lines' = IF is_none(error) THEN Tail(lines) ELSE lines
           /\ pc' = IF is_none(error) THEN "scan" ELSE "done"
           /\ result' = IF is_none(error) THEN result ELSE Some(Err(unwrap(error)))
    /\ UNCHANGED <<caller, doc, input, result_entry, is_entry_found, is_first_entry>>

\* EntryType::Action(index), LineType::Header
ActionHeader ==
    /\ pc = "scan"
    /\ lines # <<>>
    /\ current_target.kind = "Action"
    /\ line_type(Head(lines)) = "Header"
    /\ LET line == Head(lines)
           header == parse_header(line)
           kind == IF header.ok THEN header.val.kind ELSE "Err"
           error ==
               IF ~header.ok THEN Some(header.err)
               ELSE IF kind = "DesktopEntry"
               THEN Some(RepetitiveEntry(line.line_number, 0))
               ELSE None
       IN  /\ result_actions' =
                  IF kind = "DesktopAction"
                  THEN Append(result_actions, DesktopAction_new(header.val.name))
                  ELSE result_actions
           /\ current_target' =
                  IF kind = "DesktopAction"
                  THEN Action(Len(result_actions') - 1)
                  ELSE current_target
           /\ lines' = IF is_none(error) THEN Tail(lines) ELSE lines
           /\ pc' = IF is_none(error) THEN "scan" ELSE "done"
           /\ result' = IF is_none(error) THEN result ELSE Some(Err(unwrap(error)))
    /\ UNCHANGED <<caller, doc, input, result_entry, is_entry_found, is_first_entry>>

\* ActionValPair as it would be if a key could be set once in two action
\* groups that follow each other, not once in each
ActionValPair_once_in_two ==
    /\ pc = "scan"
    /\ lines # <<>>
    /\ current_target.kind = "Action"
    /\ line_type(Head(lines)) = "ValPair"
    /\ LET index == current_target.index
           before == IF index >= 1
                     THEN process_action_val_pair(Head(lines),
                                                  result_actions[index])
                     ELSE Ok(<<>>)
           filled == IF before.ok
                     THEN process_action_val_pair(Head(lines),
                                                  result_actions[index + 1])
                     ELSE before
       IN  /\ result_actions' =
                  IF filled.ok
                  THEN [result_actions EXCEPT ![index + 1] = filled.val]
                  ELSE result_actions
           /\ lines' = IF filled.ok THEN Tail(lines) ELSE lines
           /\ pc' = IF filled.ok THEN "scan" ELSE "done"
           /\ result' = IF filled.ok THEN result ELSE Some(filled)
    /\ UNCHANGED <<caller, doc, input, result_entry, is_entry_found, is_first_entry,
                   current_target>>

\* ActionValPair as it would be if every line went to the first sub-record
ActionValPair_into_first ==
    /\ pc = "scan"
    /\ lines # <<>>
    /\ current_target.kind = "Action"
    /\ line_type(Head(lines)) = "ValPair"
    /\ LET filled == process_action_val_pair(Head(lines), result_actions[1])
       IN  /\ result_actions' =
                  IF filled.ok
                  THEN [result_actions EXCEPT ![1] = filled.val]
                  ELSE result_actions
           /\ lines' = IF filled.ok THEN Tail(lines) ELSE lines
           /\ pc' = IF filled.ok THEN "scan" ELSE "done"
           /\ result' = IF filled.ok THEN result ELSE Some(filled)
    /\ UNCHANGED <<caller, doc, input, result_entry, is_entry_found, is_first_entry,
                   current_target>>

\* EntryType::Action(index), LineType::ValPair
ActionValPair ==
    /\ pc = "scan"
    /\ lines # <<>>
    /\ current_target.kind = "Action"
    /\ line_type(Head(lines)) = "ValPair"
    /\ LET index == current_target.index
           inside == index + 1 \in DOMAIN result_actions
           filled == IF inside
                     THEN process_action_val_pair(Head(lines),
                                                  result_actions[index + 1])
                     ELSE Panic
       IN  /\ result_actions' =
                  IF filled.ok
                  THEN [result_actions EXCEPT ![index + 1] = filled.val]
                  ELSE result_actions
           /\ lines' = IF filled.ok THEN Tail(lines) ELSE lines
           /\ pc' = IF filled.ok THEN "scan" ELSE "done"
           /\ result' = IF filled.ok THEN result ELSE Some(filled)
    /\ UNCHANGED <<caller, doc, input, result_entry, is_entry_found, is_first_entry,
                   current_target>>

\* the loop has ended: result_entry.take(), check_entry(&entry)?, Ok(..)
CheckEntry ==
    /\ pc = "scan"
    /\ lines = <<>>
    /\ LET checked == check_entry(result_entry)
       IN  result' = Some(IF checked.ok
                          THEN Ok(DesktopFile(result_entry, result_actions))
                          ELSE checked)
    /\ pc' = "done"
    /\ UNCHANGED <<caller, doc, input, lines, result_entry, is_entry_found,
                   is_first_entry, result_actions, current_target>>

Next ==
    \/ FilterLines
    \/ LineTypePanic
    \/ EntryHeader
    \/ EntryValPair
    \/ ActionHeader
    \/ ActionValPair
    \/ CheckEntry

(***************************************************************************)
(* Input documents.  A document is written as a sequence of lines: a       *)
(* header `[name]`, a key-value line `key=val` or `key[loc]=val`, or raw   *)
(* text.  Text(doc) is the string handed to parse.                         *)
(***************************************************************************)
Hdr(name) == [t |-> "hdr", key |-> name, loc |-> None, val |-> <<>>]
KV(key, val) == [t |-> "kv", key |-> key, loc |-> None, val |-> val]
KVL(key, loc, val) == [t |-> "kv", key |-> key, loc |-> Some(loc), val |-> val]
Raw(text) == [t |-> "raw", key |-> text, loc |-> None, val |-> <<>>]

Render(l) ==
    IF l.t = "hdr" THEN <<"[">> \o l.key \o <<"]">>
    ELSE IF l.t = "kv"
    THEN l.key
         \o (IF is_none(l.loc) THEN <<>> ELSE <<"[">> \o unwrap(l.loc) \o <<"]">>)
         \o <<"=">> \o l.val
    ELSE l.key

RECURSIVE Text(_)
Text(d) ==
    IF d = <<>> THEN <<>>
    ELSE IF Len(d) = 1 THEN Render(d[1])
    ELSE Render(Head(d)) \o <<"\n">> \o Text(Tail(d))

\* every sequence over alphabet of length at most n
Docs(alphabet, n) == UNION {[1..k -> alphabet] : k \in 0..n}

\* the key names of the format, spelled as the specification lists them
k_Type == <<"T", "y", "p", "e">>
k_Version == <<"V", "e", "r", "s", "i", "o", "n">>
k_Name == <<"N", "a", "m", "e">>
k_GenericName == <<"G", "e", "n", "e", "r", "i", "c", "N", "a", "m", "e">>
k_NoDisplay == <<"N", "o", "D", "i", "s", "p", "l", "a", "y">>
k_Comment == <<"C", "o", "m", "m", "e", "n", "t">>
k_Icon == <<"I", "c", "o", "n">>
k_Hidden == <<"H", "i", "d", "d", "e", "n">>
k_OnlyShowIn == <<"O", "n", "l", "y", "S", "h", "o", "w", "I", "n">>
k_NotShowIn == <<"N", "o", "t", "S", "h", "o", "w", "I", "n">>
k_DBusActivatable == <<"D", "B", "u", "s", "A", "c", "t", "i", "v", "a", "t", "a", "b", "l", "e">>
k_TryExec == <<"T", "r", "y", "E", "x", "e", "c">>
k_Exec == <<"E", "x", "e", "c">>
k_Path == <<"P", "a", "t", "h">>
k_Terminal == <<"T", "e", "r", "m", "i", "n", "a", "l">>
k_Actions == <<"A", "c", "t", "i", "o", "n", "s">>
k_MimeType == <<"M", "i", "m", "e", "T", "y", "p", "e">>
k_Categories == <<"C", "a", "t", "e", "g", "o", "r", "i", "e", "s">>
k_Implements == <<"I", "m", "p", "l", "e", "m", "e", "n", "t", "s">>
k_Keywords == <<"K", "e", "y", "w", "o", "r", "d", "s">>
k_StartupNotify == <<"S", "t", "a", "r", "t", "u", "p", "N", "o", "t", "i", "f", "y">>
k_StartupWMClass == <<"S", "t", "a", "r", "t", "u", "p", "W", "M", "C", "l", "a", "s", "s">>
k_URL == <<"U", "R", "L">>
k_PrefersNonDefaultGPU == <<"P", "r", "e", "f", "e", "r", "s", "N", "o", "n", "D", "e", "f", "a", "u", "l", "t", "G", "P", "U">>
k_SingleMainWindow == <<"S", "i", "n", "g", "l", "e", "M", "a", "i", "n", "W", "i", "n", "d", "o", "w">>

w_DesktopEntry == <<"D", "e", "s", "k", "t", "o", "p", " ", "E", "n", "t", "r", "y">>
w_Application == <<"A", "p", "p", "l", "i", "c", "a", "t", "i", "o", "n">>
w_Directory == <<"D", "i", "r", "e", "c", "t", "o", "r", "y">>
w_Link == <<"L", "i", "n", "k">>
w_Zed == <<"Z", "e", "d">>
w_Vendor == <<"X", "-", "V", "e", "n", "d", "o", "r">>

L_Entry == Hdr(w_DesktopEntry)
L_ActionA == Hdr(DesktopActionPrefix \o <<"a">>)
L_Other == Hdr(w_Vendor)
L_TypeApplication == KV(k_Type, w_Application)
L_TypeDirectory == KV(k_Type, w_Directory)
L_TypeZed == KV(k_Type, w_Zed)
L_NameX == KV(k_Name, <<"X">>)
L_ExecY == KV(k_Exec, <<"Y">>)
L_Blank == Raw(<<" ">>)

\* documents that take the scan through every arm of its loop
CoverDocs ==
    {<<L_Blank>>,
     <<L_Entry, L_TypeApplication, L_NameX, L_ActionA, L_NameX, L_Other>>}

\* the longest document of the structural specification
MaxLines == 4

StructLines ==
    {L_Entry, L_ActionA, L_Other, L_TypeApplication, L_TypeDirectory,
     L_TypeZed, L_NameX, L_ExecY}

StructDocs == Docs(StructLines, MaxLines) \cup CoverDocs

\* parse is entered with its locals as lines 533-539 initialise them
InitOn(docs) ==
    /\ doc \in docs
    /\ input = Text(doc)
    /\ pc = "start"
    /\ lines = <<>>
    /\ result_entry = DesktopEntry_default
    /\ is_entry_found = FALSE
    /\ is_first_entry = TRUE
    /\ result_actions = <<>>
    /\ current_target = Entry
    /\ result = None
    /\ returned = <<>>
    /\ lookup = None

Init == InitOn(StructDocs)

Spec == Init /\ [][Next]_vars

(***************************************************************************)
(* The documents of the key vocabulary: the header, then lines that give   *)
(* each of the 25 keys a well-typed value                                  *)
(***************************************************************************)
w_true == <<"t", "r", "u", "e">>
w_false == <<"f", "a", "l", "s", "e">>
w_AB == <<"A", ";", "B", ";">>
w_AxB == <<"A", ";", ";", "B">>

\* key, field of the primary record, kind of value
KeyTable ==
    {<<k_Type, "entry_type", "type">>,
     <<k_Version, "version", "str">>,
     <<k_Name, "name", "locale">>,
     <<k_GenericName, "generic_name", "locale">>,
     <<k_NoDisplay, "no_display", "bool">>,
     <<k_Comment, "comment", "locale">>,
     <<k_Icon, "icon", "icon">>,
     <<k_Hidden, "hidden", "bool">>,
     <<k_OnlyShowIn, "only_show_in", "list">>,
     <<k_NotShowIn, "not_show_in", "list">>,
     <<k_DBusActivatable, "dbus_activatable", "bool">>,
     <<k_TryExec, "try_exec", "str">>,
     <<k_Exec, "exec", "str">>,
     <<k_Path, "path", "str">>,
     <<k_Terminal, "terminal", "bool">>,
     <<k_Actions, "actions", "list">>,
     <<k_MimeType, "mime_type", "list">>,
     <<k_Categories, "categories", "list">>,
     <<k_Implements, "implements", "list">>,
     <<k_Keywords, "keywords", "locale_list">>,
     <<k_StartupNotify, "startup_notify", "bool">>,
     <<k_StartupWMClass, "startup_wm_class", "str">>,
     <<k_URL, "url", "str">>,
     <<k_PrefersNonDefaultGPU, "prefers_non_default_gpu", "bool">>,
     <<k_SingleMainWindow, "single_main_window", "bool">>}

KeysOf(kinds) == {e[1] : e \in {x \in KeyTable : x[3] \in kinds}}
FieldOf(key) == (CHOOSE e \in KeyTable : e[1] = key)[2]
KindOf(key) == (CHOOSE e \in KeyTable : e[1] = key)[3]

KeyLines ==
    {KV(k_Type, w_Application)}
    \cup {KV(k, <<"V">>) : k \in KeysOf({"str", "locale", "icon"})}
    \cup {KV(k_Exec, <<"Z">>)}
    \cup {KV(k, w_true) : k \in KeysOf({"bool"})}
    \cup {KV(k_Hidden, w_false)}
    \cup {KV(k, w_AB) : k \in KeysOf({"list", "locale_list"})}
    \cup {KV(k, w_AxB) : k \in KeysOf({"list"})}

\* the most lines after the header in a document of the key vocabulary
MaxKeyLines == 2

KeyDocs ==
    {<<L_Entry>> \o d : d \in Docs(KeyLines, MaxKeyLines)} \cup CoverDocs

InitKeys == InitOn(KeyDocs)

SpecKeys == InitKeys /\ [][Next]_vars

(***************************************************************************)
(* The documents of the localized keys: the header, then default and       *)
(* locale-qualified lines of Name, GenericName, Comment and Keywords, and  *)
(* an action header that opens a second group                              *)
(***************************************************************************)
w_es == <<"e", "s">>
w_fr == <<"f", "r">>

LocaleLines ==
    {L_ActionA,
     KV(k_Name, <<"X">>), KVL(k_Name, w_es, <<"B">>), KVL(k_Name, w_fr, <<"C">>),
     KV(k_GenericName, <<"G">>), KVL(k_GenericName, w_es, <<"H">>),
     KV(k_Comment, <<"D">>), KVL(k_Comment, w_es, <<"E">>),
     KV(k_Keywords, <<"K">>), KVL(k_Keywords, w_es, <<"M">>)}

\* the most lines after the header in a document of the localized keys
MaxLocaleLines == 3

LocaleDocs ==
    {<<L_Entry>> \o d : d \in Docs(LocaleLines, MaxLocaleLines)} \cup CoverDocs

InitLocale == InitOn(LocaleDocs)

SpecLocale == InitLocale /\ [][Next]_vars

(***************************************************************************)
(* What the claims say of a document and of the outcome of its parse       *)
(***************************************************************************)
\* every line of the document reaches the scan: none is blank or a comment
AllKept(d) == \A i \in DOMAIN d : d[i].t \in {"hdr", "kv"}

\* the 1-based number of the line the scan is at; at the end of a parse the
\* line it stopped on, or one past the last line when it scanned them all
At == Len(doc) - Len(lines) + 1

Finished == pc = "done" /\ AllKept(doc)
Succeeded == ~is_none(result) /\ unwrap(result).ok
FailedWith(kind) ==
    ~is_none(result) /\ ~unwrap(result).ok /\ unwrap(result).err.kind = kind

IsEntryHdr(l) == l.t = "hdr" /\ l.key = w_DesktopEntry
IsActionHdr(l) == l.t = "hdr" /\ ~is_none(strip_prefix(l.key, DesktopActionPrefix))
IsPlain(l, key) == l.t = "kv" /\ l.key = key /\ is_none(l.loc)

\* the lines of d numbered in range whose key is key
KeyAt(d, range, key) == {i \in range : d[i].t = "kv" /\ d[i].key = key}

\* the entry type the format gives a Type value
ExpectedKind(tag) ==
    IF tag = w_Application THEN "Application"
    ELSE IF tag = w_Link THEN "Link"
    ELSE IF tag = w_Directory THEN "Directory"
    ELSE "Unknown"

(***************************************************************************)
(* C1                                                                      *)
(***************************************************************************)
\* a header, then one Type=T, one Name=X and at most one Exec=Y, in any order
Minimal(d) ==
    /\ Len(d) >= 3
    /\ IsEntryHdr(d[1])
    /\ \A i \in 2..Len(d) :
           IsPlain(d[i], k_Type) \/ IsPlain(d[i], k_Name) \/ IsPlain(d[i], k_Exec)
    /\ Cardinality(KeyAt(d, 2..Len(d), k_Type)) = 1
    /\ Cardinality(KeyAt(d, 2..Len(d), k_Name)) = 1
    /\ Cardinality(KeyAt(d, 2..Len(d), k_Exec)) <= 1
    /\ \A i \in KeyAt(d, 2..Len(d), k_Type) : d[i].val # w_Link

\* C1: a document of a [Desktop Entry] header, one Type=T (T Application,
\* Directory or an unrecognized tag), one Name=X and at most one Exec=Y, in
\* any order, parses; the result has name.default = X, the entry type of T,
\* exec = Y when given, and nothing else needed to be there.
C1_MinimalDocumentParses ==
    (Finished /\ Minimal(doc)) =>
        /\ Succeeded
        /\ LET entry == unwrap(result).val.entry
               body == 2..Len(doc)
           IN  /\ \A i \in KeyAt(doc, body, k_Name) :
                      entry.name = Some([default |-> Some(doc[i].val),
                                         variants |-> <<>>])
               /\ \A i \in KeyAt(doc, body, k_Type) :
                      /\ ~is_none(entry.entry_type)
                      /\ unwrap(entry.entry_type).kind = ExpectedKind(doc[i].val)
               /\ \A i \in KeyAt(doc, body, k_Exec) :
                      entry.exec = Some(doc[i].val)
               /\ KeyAt(doc, body, k_Exec) = {} => is_none(entry.exec)

\* Exec first, an unrecognized type, the name last: parsed
C1_Witness ==
    /\ Finished /\ Minimal(doc) /\ Succeeded
    /\ doc = <<L_Entry, L_ExecY, L_TypeZed, L_NameX>>
    /\ unwrap(unwrap(result).val.entry.entry_type).kind = "Unknown"

(***************************************************************************)
(* C7                                                                      *)
(***************************************************************************)
\* C7: a [Desktop Action x] header before any [Desktop Entry] header makes
\* parse fail, and with FormatError when it is the first group of the file.
C7_ActionBeforeEntryIsFormatError ==
    Finished =>
        \A j \in DOMAIN doc :
            (IsActionHdr(doc[j]) /\ \A i \in 1..(j - 1) : ~IsEntryHdr(doc[i])) =>
                /\ ~Succeeded
                /\ At <= j
                /\ (At = j /\ \A i \in 1..(j - 1) : doc[i].t # "hdr") =>
                       FailedWith("FormatError")

(***************************************************************************)
(* C8                                                                      *)
(***************************************************************************)
\* C8: a second [Desktop Entry] header, met with the cursor on the primary
\* record or on a sub-record, makes parse fail with RepetitiveEntry whose
\* row is the number of that header's line.
C8_SecondEntryIsRepetitiveEntry ==
    Finished =>
        \A j \in DOMAIN doc :
            (IsEntryHdr(doc[j]) /\ \E i \in 1..(j - 1) : IsEntryHdr(doc[i])) =>
                /\ ~Succeeded
                /\ At <= j
                /\ At = j => /\ FailedWith("RepetitiveEntry")
                             /\ unwrap(result).err.row = j

(***************************************************************************)
(* C9                                                                      *)
(***************************************************************************)
\* C9: a [Desktop Entry] header that another header precedes is rejected
\* with RepetitiveEntry.
C9_EntryMustBeFirstHeader ==
    Finished =>
        \A j \in DOMAIN doc :
            (IsEntryHdr(doc[j]) /\ \E i \in 1..(j - 1) : doc[i].t = "hdr") =>
                /\ ~Succeeded
                /\ At <= j
                /\ At = j => FailedWith("RepetitiveEntry")

(***************************************************************************)
(* C10                                                                     *)
(***************************************************************************)
\* C10: a successful parse has scanned exactly one [Desktop Entry] header.
C10_SuccessHasOneEntryHeader ==
    (Finished /\ Succeeded) =>
        Cardinality({i \in DOMAIN doc : IsEntryHdr(doc[i])}) = 1

(***************************************************************************)
(* C2                                                                      *)
(***************************************************************************)
\* the list the format gives a raw value: split on ';', one trailing empty
\* element dropped when the value ends in ';', interior empties kept
ExpectedList(value) ==
    LET pieces == split(value, ";")
    IN  IF value # <<>> /\ value[Len(value)] = ";"
        THEN SubSeq(pieces, 1, Len(pieces) - 1)
        ELSE pieces

\* line j of d is the first line of its key in the primary group
FirstOfKey(d, j) == \A i \in 2..(j - 1) : ~(d[i].t = "kv" /\ d[i].key = d[j].key)

\* C2: a list-valued key stores its raw value split on ';' with one trailing
\* empty element dropped: `A;B;` gives [A, B] and `A;;B` gives [A, "", B].
C2_ListsSplitOnSemicolon ==
    Finished =>
        \A j \in 2..Len(doc) :
            (/\ j < At
             /\ doc[j].t = "kv"
             /\ doc[j].key \in KeysOf({"list"})
             /\ FirstOfKey(doc, j)) =>
                result_entry[FieldOf(doc[j].key)] = Some(ExpectedList(doc[j].val))

(***************************************************************************)
(* C3                                                                      *)
(***************************************************************************)
\* the value a field holds once its key was given value (a list field: some
\* list, its elements being what C2 is about)
HoldsValue(field, kind, value) ==
    /\ ~is_none(field)
    /\ kind = "type" => unwrap(field).kind = ExpectedKind(value)
    /\ kind = "str" => unwrap(field) = value
    /\ kind = "icon" => unwrap(field).content = value
    /\ kind = "bool" => unwrap(field) = (value = w_true)
    /\ kind = "locale" => unwrap(field).default = Some(value)

\* C3: each of the 25 keys of the vocabulary, occurring once with a
\* well-typed value under [Desktop Entry], sets its field of the primary
\* record to that value; none is ignored.
C3_EveryListedKeySetsItsField ==
    Finished =>
        \A j \in 2..Len(doc) :
            (/\ j < At
             /\ doc[j].t = "kv"
             /\ doc[j].key \in KeysOf({"type", "str", "locale", "icon", "bool",
                                       "list", "locale_list"})
             /\ FirstOfKey(doc, j)) =>
                HoldsValue(result_entry[FieldOf(doc[j].key)], KindOf(doc[j].key),
                           doc[j].val)

(***************************************************************************)
(* C4                                                                      *)
(***************************************************************************)
\* C4: the second line of a recognized non-localized key in a group fails
\* with RepetitiveKey whose row is the number of that second line, and the
\* field keeps the value of the first.
C4_SecondOccurrenceIsRepetitiveKey ==
    Finished =>
        \A i, j \in 2..Len(doc) :
            (/\ i < j
             /\ doc[j].t = "kv"
             /\ doc[j].key \in KeysOf({"type", "str", "icon", "bool", "list"})
             /\ doc[i].t = "kv"
             /\ doc[i].key = doc[j].key
             /\ FirstOfKey(doc, i)) =>
                /\ At <= j
                /\ At = j =>
                       /\ FailedWith("RepetitiveKey")
                       /\ unwrap(result).err.row = j
                       /\ KindOf(doc[j].key) # "list" =>
                              HoldsValue(result_entry[FieldOf(doc[j].key)],
                                         KindOf(doc[j].key), doc[i].val)

(***************************************************************************)
(* C5 and C6                                                               *)
(***************************************************************************)
\* the group line i of d is in: 0 the primary group, n the n-th action
GroupOf(d, i) == Cardinality({h \in 1..i : IsActionHdr(d[h])})

\* line j repeats the key and the locale (or the default) of an earlier line
\* of its group
Repeats(d, j) ==
    \E i \in 1..(j - 1) :
        /\ d[i].t = "kv"
        /\ d[i].key = d[j].key
        /\ d[i].loc = d[j].loc
        /\ GroupOf(d, i) = GroupOf(d, j)

\* the record of the group of line i, as the scan has filled it
RecordOf(d, i) ==
    IF GroupOf(d, i) = 0 THEN result_entry ELSE result_actions[GroupOf(d, i)]

\* the localized field holds value where line l put it
StoredAt(field, l, value) ==
    /\ ~is_none(field)
    /\ IF is_none(l.loc)
       THEN unwrap(field).default = Some(value)
       ELSE /\ unwrap(l.loc) \in DOMAIN unwrap(field).variants
            /\ unwrap(field).variants[unwrap(l.loc)] = value

IsLocalizedString(d, j) ==
    /\ d[j].t = "kv"
    /\ IF GroupOf(d, j) = 0
       THEN d[j].key \in {k_Name, k_GenericName, k_Comment}
       ELSE d[j].key = k_Name

\* C5: the lines of a localized-string key of one group are accepted in any
\* order and each value stored, as long as the default and each locale come
\* at most once; the line that repeats one fails with RepetitiveKey.
C5_LocalizedStringOncePerLocale ==
    Finished =>
        \A j \in 2..Len(doc) :
            IsLocalizedString(doc, j) =>
                /\ j < At =>
                       /\ ~Repeats(doc, j)
                       /\ StoredAt(RecordOf(doc, j)[FieldOf(doc[j].key)],
                                   doc[j], doc[j].val)
                /\ j = At => Repeats(doc, j) /\ FailedWith("RepetitiveKey")

\* a locale before the default, another after it: all three stored
C5_Witness ==
    /\ Finished
    /\ doc = <<L_Entry, KVL(k_Name, w_es, <<"B">>), KV(k_Name, <<"X">>),
               KVL(k_Name, w_fr, <<"C">>)>>
    /\ At = Len(doc) + 1
    /\ result_entry.name =
           Some([default |-> Some(<<"X">>),
                 variants |-> insert(insert(<<>>, w_es, <<"B">>), w_fr, <<"C">>)])

\* C6: Keywords lines follow the same rule over lists: the default and each
\* locale are accepted once, in any order, and each list stored; only the
\* line that repeats one fails with RepetitiveKey.
C6_KeywordsOncePerLocale ==
    Finished =>
        \A j \in 2..Len(doc) :
            (doc[j].t = "kv" /\ doc[j].key = k_Keywords /\ GroupOf(doc, j) = 0) =>
                /\ j < At =>
                       /\ ~Repeats(doc, j)
                       /\ StoredAt(result_entry.keywords, doc[j],
                                   ExpectedList(doc[j].val))
                /\ j = At => Repeats(doc, j) /\ FailedWith("RepetitiveKey")

(***************************************************************************)
(* The documents of the validator: the header, then lines that give or     *)
(* withhold what check_entry asks for, comment lines and empty lines; and  *)
(* the documents of comment lines and empty lines alone                    *)
(***************************************************************************)
L_TypeLink == KV(k_Type, w_Link)
L_Comment == Raw(<<"#", "c">>)
L_Empty == Raw(<<>>)

ValidLines ==
    {L_TypeLink, L_TypeApplication, L_TypeZed,
     L_NameX, KVL(k_Name, w_es, <<"B">>), KV(k_URL, <<"U">>),
     KV(k_GenericName, <<"G">>), KVL(k_GenericName, w_es, <<"H">>),
     KVL(k_Comment, w_es, <<"E">>),
     L_ActionA, L_Comment, L_Empty}

\* the most lines after the header in a document of the validator
MaxValidLines == 3

ValidDocs ==
    {<<L_Entry>> \o d : d \in Docs(ValidLines, MaxValidLines)}
    \cup Docs({L_Comment, L_Empty}, MaxValidLines)
    \cup CoverDocs

InitValid == InitOn(ValidDocs)

SpecValid == InitValid /\ [][Next]_vars

\* parse has returned after the scan took every line: what it returns is
\* what the validator says
Scanned == pc = "done" /\ lines = <<>>

\* the key-value lines of the primary group of d
Primary(d) == {i \in DOMAIN d : d[i].t = "kv" /\ GroupOf(d, i) = 0}

\* the only headers of d are [Desktop Entry] and [Desktop Action ..] headers
NoOther(d) ==
    \A i \in DOMAIN d : d[i].t = "hdr" => IsEntryHdr(d[i]) \/ IsActionHdr(d[i])

\* key is given in the primary group of d; it is given its default there
Given(d, key) == KeyAt(d, Primary(d), key) # {}
GivenDefault(d, key) == \E i \in Primary(d) : IsPlain(d[i], key)

\* a document the scan has nothing to say against: the [Desktop Entry]
\* header first and no second one, action headers after it, comment lines
\* and empty lines, no key given twice for the same locale in one group, and
\* in the primary group only Type, Name, URL, GenericName and Comment lines
Regular(d) ==
    /\ d # <<>>
    /\ IsEntryHdr(d[1])
    /\ \A i \in 2..Len(d) :
           /\ d[i].t = "hdr" => IsActionHdr(d[i])
           /\ d[i].t = "raw" => d[i] \in {L_Comment, L_Empty}
           /\ d[i].t = "kv" => ~Repeats(d, i)
    /\ \A i \in Primary(d) :
           d[i].key \in {k_Type, k_Name, k_URL, k_GenericName, k_Comment}

\* the value of the Type line of the primary group of d
TypeOf(d) == d[CHOOSE i \in Primary(d) : d[i].key = k_Type].val

\* GenericName and Comment are each absent from the primary group of d or
\* given their default there
OptionalsDefaulted(d) ==
    \A key \in {k_GenericName, k_Comment} : Given(d, key) => GivenDefault(d, key)

(***************************************************************************)
(* C11                                                                     *)
(***************************************************************************)
\* C11: a document with the header, Type=Link and a default Name parses if
\* and only if its primary group has a URL line, and fails with the KeyError
\* about the URL otherwise; with any other Type the absence of URL is no
\* error.
C11_LinkNeedsURL ==
    (/\ pc = "done"
     /\ Regular(doc)
     /\ Given(doc, k_Type)
     /\ GivenDefault(doc, k_Name)
     /\ OptionalsDefaulted(doc)) =>
        IF TypeOf(doc) = w_Link
        THEN /\ Succeeded <=> Given(doc, k_URL)
             /\ ~Succeeded =>
                    /\ FailedWith("KeyError")
                    /\ unwrap(result).err.msg = "URL is required for Link"
        ELSE Succeeded

\* Type=Link and a name, a comment line and no URL: the KeyError
C11_Witness ==
    /\ pc = "done"
    /\ doc = <<L_Entry, L_TypeLink, L_Comment, L_NameX>>
    /\ FailedWith("KeyError")
    /\ unwrap(result).err.msg = "URL is required for Link"

(***************************************************************************)
(* C12                                                                     *)
(***************************************************************************)
\* C12: a Type value other than Application, Link and Directory is no error:
\* the document parses, and its entry type is Unknown carrying that value
\* unchanged.
C12_UnknownTypeKeepsTag ==
    (/\ pc = "done"
     /\ Regular(doc)
     /\ Given(doc, k_Type)
     /\ GivenDefault(doc, k_Name)
     /\ OptionalsDefaulted(doc)
     /\ ExpectedKind(TypeOf(doc)) = "Unknown") =>
        /\ Succeeded
        /\ unwrap(result).val.entry.entry_type =
               Some([kind |-> "Unknown", tag |-> TypeOf(doc)])

(***************************************************************************)
(* C14                                                                     *)
(***************************************************************************)
\* C14: an input the scan takes to its end without giving Type in the
\* primary group (an input of comment lines and empty lines alone is one)
\* fails with the KeyError that says the type is required, also when the
\* name is missing too.
C14_TypeRequiredFirst ==
    (Scanned /\ NoOther(doc) /\ ~Given(doc, k_Type)) =>
        /\ FailedWith("KeyError")
        /\ unwrap(result).err.msg = "Type is required"

\* a comment line and an empty line, neither Type nor Name: Type is asked for
C14_Witness ==
    /\ Scanned
    /\ doc = <<L_Comment, L_Empty>>
    /\ FailedWith("KeyError")
    /\ unwrap(result).err.msg = "Type is required"

(***************************************************************************)
(* C15                                                                     *)
(***************************************************************************)
\* C15: a document whose primary group gives Name no default (no Name line,
\* or Name[locale] lines alone) does not parse, and fails with KeyError once
\* the scan took every line; a successful result has a primary Name with a
\* default.
C15_NameDefaultRequired ==
    /\ (pc = "done" /\ NoOther(doc) /\ ~GivenDefault(doc, k_Name)) =>
           /\ ~Succeeded
           /\ Scanned => FailedWith("KeyError")
    /\ (pc = "done" /\ Succeeded) =>
           /\ ~is_none(unwrap(result).val.entry.name)
           /\ ~is_none(unwrap(unwrap(result).val.entry.name).default)

\* a type and Name[es] alone: KeyError
C15_Witness ==
    /\ Scanned
    /\ doc = <<L_Entry, L_TypeApplication, KVL(k_Name, w_es, <<"B">>)>>
    /\ FailedWith("KeyError")
    /\ unwrap(result).err.msg = "The default value of name is required"

(***************************************************************************)
(* C17                                                                     *)
(***************************************************************************)
\* C17: when GenericName or Comment is given in the primary group through
\* locale-qualified lines alone parse fails with KeyError; a document that
\* has the header, a type, a default name and the URL of a Link parses if and
\* only if GenericName and Comment are each absent or given a default.
C17_OptionalLocalizedNeedDefault ==
    /\ (Scanned /\ NoOther(doc) /\ ~OptionalsDefaulted(doc)) =>
           FailedWith("KeyError")
    /\ (/\ pc = "done"
        /\ Regular(doc)
        /\ Given(doc, k_Type)
        /\ GivenDefault(doc, k_Name)
        /\ TypeOf(doc) = w_Link => Given(doc, k_URL)) =>
           (Succeeded <=> OptionalsDefaulted(doc))

\* a type, a name and GenericName[es] alone: KeyError
C17_Witness ==
    /\ Scanned
    /\ doc = <<L_Entry, L_TypeApplication, L_NameX,
               KVL(k_GenericName, w_es, <<"H">>)>>
    /\ FailedWith("KeyError")
    /\ unwrap(result).err.msg = "The default value of GenericName is required"

(***************************************************************************)
(* The documents of the action groups: a valid primary group, then action  *)
(* headers, another header and Name, Exec and Icon lines                   *)
(***************************************************************************)
L_ActionB == Hdr(DesktopActionPrefix \o <<"b">>)

ActionLines ==
    {L_ActionA, L_ActionB, L_Other,
     KV(k_Name, <<"N">>), KVL(k_Name, w_es, <<"B">>), L_ExecY,
     KV(k_Icon, <<"I">>)}

\* the most lines after the primary group in a document of the action groups
MaxActionLines == 4

ActionDocs ==
    {<<L_Entry, L_TypeApplication, L_NameX>> \o d :
         d \in Docs(ActionLines, MaxActionLines)}
    \cup CoverDocs

InitActions == InitOn(ActionDocs)

SpecActions == InitActions /\ [][Next]_vars

\* the numbers of the action groups of d, and the lines of group g
Groups(d) == 1..Cardinality({h \in DOMAIN d : IsActionHdr(d[h])})
LinesOf(d, g) == {i \in DOMAIN d : d[i].t = "kv" /\ GroupOf(d, i) = g}

(***************************************************************************)
(* C16                                                                     *)
(***************************************************************************)
\* C16: a document with an action group that gives Name no default (no Name
\* line, or Name[locale] lines alone) does not parse, and fails with KeyError
\* once the scan took every line; every sub-record of a successful result
\* has a Name with a default.
C16_EverySubRecordHasName ==
    /\ (/\ Finished
        /\ NoOther(doc)
        /\ \E g \in Groups(doc) :
               \A i \in LinesOf(doc, g) : ~IsPlain(doc[i], k_Name)) =>
           /\ ~Succeeded
           /\ Scanned => FailedWith("KeyError")
    /\ (Finished /\ Succeeded) =>
           \A g \in DOMAIN unwrap(result).val.actions :
               /\ ~is_none(unwrap(result).val.actions[g].name)
               /\ ~is_none(unwrap(unwrap(result).val.actions[g].name).default)

(***************************************************************************)
(* C18                                                                     *)
(***************************************************************************)
\* the field of a sub-record that key fills
ActionFieldOf(key) ==
    IF key = k_Name THEN "name" ELSE IF key = k_Exec THEN "exec" ELSE "icon"

\* the field holds value where line l of an action group put it
StoredInAction(record, l) ==
    IF l.key = k_Name THEN StoredAt(record.name, l, l.val)
    ELSE IF l.key = k_Exec THEN record.exec = Some(l.val)
    ELSE record.icon = Some([content |-> l.val])

\* C18: each [Desktop Action n] header after the primary group adds a
\* sub-record with ref_name n; each Name, Exec and Icon line after it, up to
\* the next action header, is stored in that newest sub-record; a sub-record
\* holds nothing its own group did not give; a successful result returns the
\* sub-records so filled.
C18_ActionLinesGoToNewestSubRecord ==
    Finished =>
        /\ \A j \in 2..Len(doc) :
               (j < At /\ IsActionHdr(doc[j])) =>
                   /\ GroupOf(doc, j) \in DOMAIN result_actions
                   /\ result_actions[GroupOf(doc, j)].ref_name =
                          unwrap(strip_prefix(doc[j].key, DesktopActionPrefix))
        /\ \A j \in 2..Len(doc) :
               (/\ doc[j].t = "kv"
                /\ doc[j].key \in {k_Name, k_Exec, k_Icon}
                /\ GroupOf(doc, j) >= 1) =>
                   /\ j < At => /\ ~Repeats(doc, j)
                                /\ StoredInAction(RecordOf(doc, j), doc[j])
                   /\ j = At => Repeats(doc, j) /\ FailedWith("RepetitiveKey")
        /\ \A g \in DOMAIN result_actions :
               /\ g \in Groups(doc)
               /\ \A key \in {k_Name, k_Exec, k_Icon} :
                      KeyAt(doc, LinesOf(doc, g), key) = {} =>
                          is_none(result_actions[g][ActionFieldOf(key)])
        /\ Succeeded =>
               /\ unwrap(result).val.actions = result_actions
               /\ DOMAIN result_actions = Groups(doc)

\* two groups: a name for a, then b opened, an Exec for b alone
C18_Witness ==
    /\ Finished /\ Succeeded
    /\ doc = <<L_Entry, L_TypeApplication, L_NameX,
               L_ActionA, KV(k_Name, <<"N">>), L_ActionB, L_ExecY>>
    /\ Len(unwrap(result).val.actions) = 2
    /\ unwrap(result).val.actions[1].ref_name = <<"a">>
    /\ is_none(unwrap(result).val.actions[1].exec)
    /\ unwrap(result).val.actions[2].ref_name = <<"b">>
    /\ unwrap(result).val.actions[2].exec = Some(<<"Y">>)

(***************************************************************************)
(* The documents of what the scan passes over: the header, then lines of   *)
(* keys outside the vocabulary, a header that is neither [Desktop Entry]   *)
(* nor [Desktop Action ..], and recognized lines around them               *)
(***************************************************************************)
w_Foo == <<"F", "o", "o">>
w_StarupNotify == <<"S", "t", "a", "r", "u", "p", "N", "o", "t", "i", "f", "y">>

IgnoredLines ==
    {L_TypeApplication, L_NameX, L_ExecY, L_ActionA, L_Other,
     KV(w_Foo, <<"V">>), KVL(w_Foo, w_es, <<"V">>), KV(k_URL, <<"U">>),
     KV(w_StarupNotify, <<"V">>)}

\* the most lines after the header in a document of this family
MaxIgnoredLines == 4

IgnoredDocs ==
    {<<L_Entry>> \o d : d \in Docs(IgnoredLines, MaxIgnoredLines)}
    \cup CoverDocs

InitIgnored == InitOn(IgnoredDocs)

SpecIgnored == InitIgnored /\ [][Next]_vars

\* the scan is about to take line At of a document all of whose lines it kept
Taking == pc = "scan" /\ lines # <<>> /\ AllKept(doc)

\* the step takes the line and changes nothing else
Skipped ==
    /\ pc' = "scan"
    /\ lines' = Tail(lines)
    /\ UNCHANGED <<result_entry, is_entry_found, is_first_entry,
                   result_actions, current_target, result>>

\* the keys the format knows in the group of line j of d
Vocabulary(d, j) ==
    IF GroupOf(d, j) = 0 THEN {e[1] : e \in KeyTable}
    ELSE {k_Name, k_Exec, k_Icon}

\* the header line j of d stands under is neither [Desktop Entry] nor an
\* action header
InOther(d, j) ==
    \E h \in 1..(j - 1) :
        /\ d[h].t = "hdr" /\ ~IsEntryHdr(d[h]) /\ ~IsActionHdr(d[h])
        /\ \A k \in (h + 1)..(j - 1) : d[k].t # "hdr"

(***************************************************************************)
(* C13                                                                     *)
(***************************************************************************)
\* C13: a key-value line whose key is not in the vocabulary of its group
\* (the 25 keys in the primary group; Name, Exec, Icon in an action group)
\* is accepted and changes nothing, whatever its value and locale and
\* however often it comes: the scan goes on with the records, the flags and
\* the cursor as they were, as if the line were not there.
C13_UnrecognizedKeyChangesNothing ==
    [][(/\ Taking
        /\ doc[At].t = "kv"
        /\ doc[At].key \notin Vocabulary(doc, At)) => Skipped]_vars

(***************************************************************************)
(* C20                                                                     *)
(***************************************************************************)
\* C20: a group whose header is neither [Desktop Entry] nor an action header
\* is passed over as a whole: its header and each key-value line under it,
\* recognized key or not, is accepted and changes nothing.
C20_OtherGroupChangesNothing ==
    [][(/\ Taking
        /\ \/ doc[At].t = "hdr" /\ ~IsEntryHdr(doc[At]) /\ ~IsActionHdr(doc[At])
           \/ doc[At].t = "kv" /\ InOther(doc, At)) => Skipped]_vars

(***************************************************************************)
(* The documents of the boolean keys: the header, then lines that give a   *)
(* boolean key a literal or something else                                 *)
(***************************************************************************)
BoolValues ==
    {w_true, w_false, <<"T", "r", "u", "e">>, <<"1">>, <<>>,
     <<" ">> \o w_true \o <<" ">>, w_true \o <<" ">>}

BoolLines == {KV(k, v) : k \in KeysOf({"bool"}), v \in BoolValues}

\* the most lines after the header in a document of the boolean keys
MaxBoolLines == 2

BoolDocs ==
    {<<L_Entry>> \o d : d \in Docs(BoolLines, MaxBoolLines)} \cup CoverDocs

InitBool == InitOn(BoolDocs)

SpecBool == InitBool /\ [][Next]_vars

(***************************************************************************)
(* C19                                                                     *)
(***************************************************************************)
\* the value line l gives its key: what stands after '=', without the
\* trailing whitespace the line has lost before it is tokenized
ValueOf(l) == trim_end(l.val)

\* C19: a boolean key given `true` or `false` is accepted and holds that
\* boolean; given anything else (`True`, `1`, nothing, ` true `) the parse
\* fails on that line with a Syntax error.
C19_BooleanLiterals ==
    Finished =>
        \A j \in 2..Len(doc) :
            (/\ IsPlain(doc[j], doc[j].key)
             /\ doc[j].key \in KeysOf({"bool"})
             /\ FirstOfKey(doc, j)) =>
                IF ValueOf(doc[j]) \in {w_true, w_false}
                THEN /\ At # j
                     /\ j < At =>
                            result_entry[FieldOf(doc[j].key)] =
                                Some(ValueOf(doc[j]) = w_true)
                ELSE /\ At <= j
                     /\ At = j => FailedWith("Syntax")

(***************************************************************************)
(* The documents of the failures: the header, then sound lines and lines   *)
(* in error of each kind: a header with text after its ']', a key with a   *)
(* space in it, a boolean key given `1`, a second [Desktop Entry], and the *)
(* repeats the sound lines make                                            *)
(***************************************************************************)
L_BadHeader == Raw(<<"[", "a", "]", "b">>)
L_BadKey == Raw(<<"N", " ", "m", "=", "1">>)
L_BadBool == KV(k_Terminal, <<"1">>)

FailLines ==
    {L_Entry, L_ActionA, L_TypeApplication, L_NameX,
     L_BadHeader, L_BadKey, L_BadBool}

\* the most lines after the header in a document of the failures
MaxFailLines == 4

FailDocs ==
    {<<L_Entry>> \o d : d \in Docs(FailLines, MaxFailLines)} \cup CoverDocs

InitFail == InitOn(FailDocs)

SpecFail == InitFail /\ [][Next]_vars

\* the error the format has line j of d raise, "none" when it has none:
\* the kind of the malformed line, RepetitiveEntry for a [Desktop Entry]
\* that is not the first line, RepetitiveKey for the repeat of a key its
\* group knows, Syntax for the boolean key of the primary group given `1`
ErrorOf(d, j) ==
    IF d[j] \in {L_BadHeader, L_BadKey} THEN "Syntax"
    ELSE IF IsEntryHdr(d[j]) /\ j > 1 THEN "RepetitiveEntry"
    ELSE IF /\ d[j].t = "kv"
            /\ d[j].key \in Vocabulary(d, j)
            /\ Repeats(d, j)
    THEN "RepetitiveKey"
    ELSE IF d[j] = L_BadBool /\ GroupOf(d, j) = 0 THEN "Syntax"
    ELSE "none"

\* the lines of d in error, and the first line of a set of lines
InError(d) == {j \in DOMAIN d : ErrorOf(d, j) # "none"}
First(S) == CHOOSE j \in S : \A k \in S : j <= k

\* d is the header followed by lines of the failures
OfFailures(d) ==
    /\ d # <<>>
    /\ d[1] = L_Entry
    /\ \A i \in DOMAIN d : d[i] \in FailLines

(***************************************************************************)
(* C21                                                                     *)
(***************************************************************************)
\* C21: parse stops at the first line in error, in file order, and returns
\* the error of that line, taking no later line; it returns the validator's
\* KeyError, or a result, only when it has taken every line and none was in
\* error.
C21_FailFast ==
    (pc = "done" /\ OfFailures(doc)) =>
        /\ InError(doc) # {} =>
               /\ At = First(InError(doc))
               /\ FailedWith(ErrorOf(doc, At))
        /\ InError(doc) = {} =>
               /\ Scanned
               /\ Succeeded \/ FailedWith("KeyError")
        /\ FailedWith("KeyError") => Scanned /\ InError(doc) = {}
        /\ Succeeded => Scanned /\ InError(doc) = {}

\* two lines in error, a repeat and then a malformed header: the repeat's
C21_Witness ==
    /\ pc = "done"
    /\ doc = <<L_Entry, L_NameX, L_TypeApplication, L_NameX, L_BadHeader>>
    /\ At = 4
    /\ FailedWith("RepetitiveKey")

(***************************************************************************)
(* The documents of the rows: comment lines and empty lines among sound    *)
(* lines and lines in error, from the first line of the file on            *)
(***************************************************************************)
RowLines ==
    {L_Comment, L_Empty, L_Entry, L_ActionA, L_NameX, L_BadHeader, L_BadKey}

\* the most lines in a document of the rows
MaxRowLines == 4

RowDocs == Docs(RowLines, MaxRowLines) \cup CoverDocs

InitRows == InitOn(RowDocs)

SpecRows == InitRows /\ [][Next]_vars

\* a line the Line Classifier drops: an empty line, or a line whose first
\* character that is not whitespace is '#'
Dropped(l) ==
    /\ l.t = "raw"
    /\ \/ l.key = <<>>
       \/ \E i \in DOMAIN l.key :
              /\ l.key[i] = "#"
              /\ \A k \in 1..(i - 1) : l.key[k] \in WhiteSpace

\* the 1-based number, in the input text, of the line the scan is at: the
\* line of doc that has as many kept lines from it on as are left to scan
AtRow ==
    IF lines = <<>> THEN Len(doc) + 1
    ELSE CHOOSE j \in DOMAIN doc :
             /\ ~Dropped(doc[j])
             /\ Cardinality({k \in j..Len(doc) : ~Dropped(doc[k])}) = Len(lines)

\* parse has returned an error that cites a position
Positional ==
    /\ pc = "done"
    /\ ~is_none(result)
    /\ ~unwrap(result).ok
    /\ "row" \in DOMAIN unwrap(result).err

(***************************************************************************)
(* C22                                                                     *)
(***************************************************************************)
\* C22: the row of a positional error is the 1-based number of the line in
\* error in the input text, the dropped comment lines and empty lines
\* before it counted; an error on the first line has row 1.
C22_RowsAreOneBased == Positional => unwrap(result).err.row = AtRow

(***************************************************************************)
(* C23                                                                     *)
(***************************************************************************)
\* C23: no input makes parse return InternalError.
C23_NoInternalError == pc = "done" => ~FailedWith("InternalError")

(***************************************************************************)
(* Calls of parse one after another.  The caller keeps what parse has      *)
(* returned and calls it again; parse enters with the locals lines 532-539 *)
(* construct, whatever the call before it left                             *)
(***************************************************************************)
\* the most calls of parse in a row
MaxCalls == 3

CallDocs ==
    Docs({L_Entry, L_NameX}, 2)
    \cup {<<L_Entry, L_TypeApplication, L_NameX>>}
    \cup CoverDocs

\* CallAgain as it would be if the primary record outlived the call
CallAgain_keeping_entry ==
    /\ pc = "done"
    /\ Len(returned) + 1 < MaxCalls
    /\ returned' = Append(returned, [input |-> input, result |-> unwrap(result)])
    /\ doc' \in CallDocs
    /\ input' = Text(doc')
    /\ pc' = "start"
    /\ lines' = <<>>
    /\ result_entry' = result_entry
    /\ is_entry_found' = FALSE
    /\ is_first_entry' = TRUE
    /\ result_actions' = <<>>
    /\ current_target' = Entry
    /\ result' = None
    /\ UNCHANGED lookup

\* parse has returned and is called again: lines 533-539 make its locals anew
CallAgain ==
    /\ pc = "done"
    /\ Len(returned) + 1 < MaxCalls
    /\ returned' = Append(returned, [input |-> input, result |-> unwrap(result)])
    /\ doc' \in CallDocs
    /\ input' = Text(doc')
    /\ pc' = "start"
    /\ lines' = <<>>
    /\ result_entry' = DesktopEntry_default
    /\ is_entry_found' = FALSE
    /\ is_first_entry' = TRUE
    /\ result_actions' = <<>>
    /\ current_target' = Entry
    /\ result' = None
    /\ UNCHANGED lookup

NextCalls == Next \/ CallAgain

InitCalls == InitOn(CallDocs)

SpecCalls == InitCalls /\ [][NextCalls]_vars

LocaleString_get_variant_any(self, locale) ==
    IF DOMAIN self.variants # {}
    THEN self.variants[CHOOSE l \in DOMAIN self.variants : TRUE]
    ELSE self.default

\* LocaleString::get_variant
LocaleString_get_variant(self, locale) ==
    IF contains_key(self.variants, locale) THEN self.variants[locale]
    ELSE self.default

\* LocaleStringList::get_variant
LocaleStringList_get_variant(self, locale) ==
    IF contains_key(self.variants, locale) THEN self.variants[locale]
    ELSE self.default

\* the locales that are looked up; the first MaxStored of them may have a
\* variant stored
LocaleNames == <<w_es, w_fr, <<"d", "e">>, <<"i", "t">>, <<"p", "t">>>>
MaxStored == 2
Stored == {LocaleNames[i] : i \in 1..MaxStored}
Asked == {LocaleNames[i] : i \in 1..(MaxStored + 1)}

\* every map from some of the locales in Stored to values
Variants(values) == UNION {[S -> values] : S \in SUBSET Stored}

LocaleStrings ==
    [default : {<<"X">>, <<"Y">>}, variants : Variants({<<"B">>, <<"C">>})]

LocaleStringLists ==
    [default : {<<>>, <<<<"K">>>>},
     variants : Variants({<<<<"M">>>>, <<<<"K">>, <<"M">>>>})]

\* the caller holds a localized value and is about to look a locale up in it
InitLookup ==
    /\ doc = <<>>
    /\ input = <<>>
    /\ pc = "start"
    /\ lines = <<>>
    /\ result_entry = DesktopEntry_default
    /\ is_entry_found = FALSE
    /\ is_first_entry = TRUE
    /\ result_actions = <<>>
    /\ current_target = Entry
    /\ result = None
    /\ returned = <<>>
    /\ \E list \in BOOLEAN :
       \E self \in IF list THEN LocaleStringLists ELSE LocaleStrings :
       \E locale \in Asked :
           lookup = Some([list |-> list, self |-> self, locale |-> locale,
                          out |-> None])

\* self.get_variant(locale) on a LocaleString
GetVariant ==
    /\ ~is_none(lookup)
    /\ ~unwrap(lookup).list
    /\ is_none(unwrap(lookup).out)
    /\ lookup' = Some([unwrap(lookup) EXCEPT !.out =
                   Some(LocaleString_get_variant(unwrap(lookup).self,
                                                 unwrap(lookup).locale))])
    /\ UNCHANGED <<doc, input, pc, lines, result_entry, is_entry_found,
                   is_first_entry, result_actions, current_target, result,
                   returned>>

\* self.get_variant(locale) on a LocaleStringList
GetListVariant ==
    /\ ~is_none(lookup)
    /\ unwrap(lookup).list
    /\ is_none(unwrap(lookup).out)
    /\ lookup' = Some([unwrap(lookup) EXCEPT !.out =
                   Some(LocaleStringList_get_variant(unwrap(lookup).self,
                                                     unwrap(lookup).locale))])
    /\ UNCHANGED <<doc, input, pc, lines, result_entry, is_entry_found,
                   is_first_entry, result_actions, current_target, result,
                   returned>>

NextLookup == GetVariant \/ GetListVariant

SpecLookup == InitLookup /\ [][NextLookup]_vars

(***************************************************************************)
(* C25                                                                     *)
(***************************************************************************)
\* get_variant has returned
LookedUp == ~is_none(lookup) /\ ~is_none(unwrap(lookup).out)

\* C25: looking a locale up in a localized string or list returns the
\* variant stored for that very locale when there is one and the default
\* otherwise, never the variant of another locale.
C25_LookupExactLocaleOrDefault ==
    LookedUp =>
        LET l == unwrap(lookup)
        IN  IF l.locale \in DOMAIN l.self.variants
            THEN unwrap(l.out) = l.self.variants[l.locale]
            ELSE unwrap(l.out) = l.self.default

\* es and fr stored, de looked up: the default
C25_Witness ==
    /\ LookedUp
    /\ unwrap(lookup).locale = <<"d", "e">>
    /\ unwrap(lookup).self =
           [default |-> <<"X">>,
            variants |-> insert(insert(<<>>, w_es, <<"B">>), w_fr, <<"C">>)]
    /\ unwrap(lookup).out = Some(<<"X">>)

(***************************************************************************)
(* The documents of the malformed headers: header lines with text after    *)
(* the ']', without a ']', with a second '[' or a tab inside               *)
(***************************************************************************)
L_ActionOdd == Hdr(DesktopActionPrefix \o <<"x", "=", "#", ";", " ", "y">>)

BadHeaderLines ==
    {L_Entry, L_ActionOdd, L_BadHeader,
     Raw(<<"[", "a", "]", "]">>),
     Raw(<<"[">> \o w_DesktopEntry),
     Raw(<<"[", "a">>),
     Raw(<<"[", "a", "[", "b", "]">>),
     Raw(<<"[", "[", "a", "]">>),
     Raw(<<"[", "a", "\t", "b", "]">>),
     Raw(<<"[", "a", "[", "b">>),
     Raw(<<"[", "a", "]", "b", "[">>)}

\* the most lines in a document of the malformed headers
MaxBadHeaderLines == 3

BadHeaderDocs == Docs(BadHeaderLines, MaxBadHeaderLines) \cup CoverDocs

InitBadHeaders == InitOn(BadHeaderDocs)

SpecBadHeaders == InitBadHeaders /\ [][Next]_vars

\* the Line Classifier drops no line of d, so that At numbers the lines of d
NoneDropped(d) == \A i \in DOMAIN d : ~Dropped(d[i])

\* text is the text of a Header line
IsHeaderText(text) == text # <<>> /\ text[1] = "["

\* where text has a ']'; where it has, after the opening '[', a '[' or a
\* control character
Closes(text) == {i \in DOMAIN text : text[i] = "]"}
Unacceptable(text) ==
    {i \in 2..Len(text) : text[i] = "[" \/ text[i] \in Control}

(***************************************************************************)
(* C26                                                                     *)
(***************************************************************************)
\* C26: a Header line (one without a second '[' or a control character,
\* which are another error) that has characters after its ']', or has no
\* ']' at all, makes parse fail with a Syntax error.
C26_HeaderMustEndInBracket ==
    (pc = "done" /\ NoneDropped(doc)) =>
        \A j \in DOMAIN doc :
            LET text == Render(doc[j])
            IN  (/\ IsHeaderText(text)
                 /\ Unacceptable(text) = {}
                 /\ \/ Closes(text) = {}
                    \/ \E i \in Closes(text) : i < Len(text)) =>
                    /\ ~Succeeded
                    /\ At <= j
                    /\ At = j => FailedWith("Syntax")

(***************************************************************************)
(* C27                                                                     *)
(***************************************************************************)
\* C27: a Header line whose first '[' after the opening one, or first
\* control character, comes before any ']' makes parse fail with
\* UnacceptableCharacter citing that character, the row of the line and the
\* column offset of the character; the other characters before the ']'
\* make the group name, as the ref_name of an accepted action header shows.
C27_UnacceptableCharacterInHeader ==
    (pc = "done" /\ NoneDropped(doc)) =>
        /\ \A j \in DOMAIN doc :
               LET text == Render(doc[j])
               IN  (/\ IsHeaderText(text)
                    /\ Unacceptable(text) # {}
                    /\ \A i \in Closes(text) : i > First(Unacceptable(text))) =>
                       /\ ~Succeeded
                       /\ At <= j
                       /\ At = j =>
                              /\ FailedWith("UnacceptableCharacter")
                              /\ unwrap(result).err.ch =
                                     text[First(Unacceptable(text))]
                              /\ unwrap(result).err.row = j
                              /\ unwrap(result).err.col =
                                     First(Unacceptable(text)) - 1
        /\ \A j \in DOMAIN doc :
               (j < At /\ IsActionHdr(doc[j])) =>
                   result_actions[GroupOf(doc, j)].ref_name =
                       SubSeq(doc[j].key, Len(DesktopActionPrefix) + 1,
                              Len(doc[j].key))

(***************************************************************************)
(* The documents of the header names: the header, then well-formed headers *)
(* whose names are the two literals and near misses of them                *)
(***************************************************************************)
w_DesktopAction == SubSeq(DesktopActionPrefix, 1, Len(DesktopActionPrefix) - 1)

HeaderNames ==
    {w_DesktopEntry,
     DesktopActionPrefix \o <<"a">>,
     DesktopActionPrefix \o <<"a", " ", "b">>,
     DesktopActionPrefix \o <<" ", "c">>,
     w_DesktopAction,
     w_DesktopAction \o <<"a">>,
     <<"d", "e", "s", "k", "t", "o", "p", " ", "e", "n", "t", "r", "y">>,
     <<"D", "e", "s", "k", "t", "o", "p", " ", " ", "E", "n", "t", "r", "y">>,
     <<" ">> \o w_DesktopEntry,
     <<"d", "e", "s", "k", "t", "o", "p", " ", "a", "c", "t", "i", "o", "n",
       " ", "a">>,
     <<" ">> \o DesktopActionPrefix \o <<"a">>}

\* the most headers after the first in a document of the header names
MaxHeaderLines == 3

HeaderDocs ==
    {<<L_Entry>> \o d : d \in Docs({Hdr(n) : n \in HeaderNames}, MaxHeaderLines)}
    \cup CoverDocs

InitHeaders == InitOn(HeaderDocs)

SpecHeaders == InitHeaders /\ [][Next]_vars

\* name starts with the literal `Desktop Action `; what follows the literal
IsSubName(name) ==
    /\ Len(name) >= Len(DesktopActionPrefix)
    /\ \A i \in DOMAIN DesktopActionPrefix : name[i] = DesktopActionPrefix[i]
Remainder(name) == SubSeq(name, Len(DesktopActionPrefix) + 1, Len(name))

\* the names of the Sub headers among lines 2..n of d, in order
RECURSIVE SubNames(_, _)
SubNames(d, n) ==
    IF n < 2 THEN <<>>
    ELSE SubNames(d, n - 1)
         \o (IF d[n].t = "hdr" /\ IsSubName(d[n].key)
             THEN <<Remainder(d[n].key)>>
             ELSE <<>>)

(***************************************************************************)
(* C28                                                                     *)
(***************************************************************************)
\* C28: after the first [Desktop Entry], a header named exactly
\* `Desktop Entry` acts as the Primary marker (the parse fails on it with
\* RepetitiveEntry); a header whose name starts with `Desktop Action ` acts
\* as Sub of what follows the prefix (it adds a sub-record of that ref_name);
\* a header of any other name, the near misses included, acts as Other (it
\* is accepted and adds nothing).
C28_HeaderNameMapping ==
    (pc = "done" /\ doc # <<>> /\ doc[1] = L_Entry
     /\ \A i \in DOMAIN doc : doc[i].t = "hdr") =>
        /\ \A j \in 2..Len(doc) :
               IF doc[j].key = w_DesktopEntry
               THEN At <= j /\ (At = j => FailedWith("RepetitiveEntry"))
               ELSE At # j
        /\ [g \in DOMAIN result_actions |-> result_actions[g].ref_name] =
               SubNames(doc, At - 1)

\* an exact action header, three near misses... the names of two sub-records
C28_Witness ==
    /\ pc = "done"
    /\ doc = <<L_Entry, Hdr(w_DesktopAction \o <<"a">>),
               Hdr(DesktopActionPrefix \o <<" ", "c">>),
               Hdr(DesktopActionPrefix \o <<"a", " ", "b">>)>>
    /\ At = 5
    /\ Len(result_actions) = 2
    /\ result_actions[1].ref_name = <<" ", "c">>
    /\ result_actions[2].ref_name = <<"a", " ", "b">>

(***************************************************************************)
(* The documents of the KeyValue Tokenizer: the header, then lines that    *)
(* are not headers, well formed and not, in the entry and in an action     *)
(***************************************************************************)
TokenLines ==
    {Raw(<<"N", "=", "1">>),
     Raw(<<"N">>),
     Raw(<<"=", "1">>),
     Raw(<<"N", " ", "m", "=", "1">>),
     Raw(<<"N", "_", "a", "=", "1">>),
     Raw(<<"N", "-", "9", "=", "a", "=", "b", "[", "c", "]", " ", "d">>),
     Raw(<<"N", "]", "=", "1">>),
     Raw(<<"N", "a", "m", "e", "[", "e", "s", "]", "=", "1">>),
     Raw(<<"N", "[", "]", "=", "1">>),
     Raw(<<"N", "[", "e", "[", " ", "=", "]", "=", "1">>),
     Raw(<<"N", "[", "e", "s", "]", "x", "=", "1">>),
     Raw(<<"N", "[", "e", "s", "]", "]", "=", "1">>),
     Raw(<<"N", "[", "e", "s", "]", " ", "=", "1">>),
     Raw(<<"N", "[", "e", "s", "]">>),
     Raw(<<"N", "[", "e", "s">>),
     L_ActionA}

\* the most lines after the header in a document of the tokenizer
MaxTokenLines == 2

TokenDocs ==
    {<<L_Entry>> \o d : d \in Docs(TokenLines, MaxTokenLines)} \cup CoverDocs

InitTokens == InitOn(TokenDocs)

SpecTokens == InitTokens /\ [][Next]_vars

\* the positions of ch in text, and of the characters of text outside set
Where(text, ch) == {i \in DOMAIN text : text[i] = ch}
Outside(text, set) == {i \in DOMAIN text : text[i] \notin set}

\* where Key-state ends: the first '[' or '=' of text, one past the end of
\* text when it has neither
KeyEnd(text) ==
    IF Where(text, "[") \cup Where(text, "=") = {} THEN Len(text) + 1
    ELSE First(Where(text, "[") \cup Where(text, "="))

\* text has a locale tag: Key-state ended on a '['
Tagged(text) == KeyEnd(text) <= Len(text) /\ text[KeyEnd(text)] = "["

\* the ']' that closes the tag, one past the end of text when none does
TagEnd(text) ==
    IF {i \in Where(text, "]") : i > KeyEnd(text)} = {} THEN Len(text) + 1
    ELSE First({i \in Where(text, "]") : i > KeyEnd(text)})

\* the position of the offending character of text, 0 when it has none:
\* a character of the key outside [A-Za-z0-9-], or a character other than
\* '=' right after the ']' of the tag
Offending(text) ==
    LET bad == {i \in Outside(text, KeyChars) : i < KeyEnd(text)}
    IN  IF bad # {} THEN First(bad)
        ELSE IF /\ Tagged(text)
                /\ TagEnd(text) < Len(text)
                /\ text[TagEnd(text) + 1] # "="
        THEN TagEnd(text) + 1
        ELSE 0

\* the key, the locale tag and the value of a text with no offending
\* character
KeyOf(text) == SubSeq(text, 1, KeyEnd(text) - 1)
TagOf(text) ==
    IF Tagged(text)
    THEN Some(SubSeq(text, KeyEnd(text) + 1, TagEnd(text) - 1))
    ELSE None
RestOf(text) ==
    IF Tagged(text) THEN SubSeq(text, TagEnd(text) + 2, Len(text))
    ELSE SubSeq(text, KeyEnd(text) + 1, Len(text))

\* the scan is at a line of a document of the tokenizer that is not a header
AtToken ==
    /\ doc \in TokenDocs \ CoverDocs
    /\ At <= Len(doc)
    /\ doc[At].t = "raw"

(***************************************************************************)
(* C29                                                                     *)
(***************************************************************************)
\* C29: the tokenizer rejects the line it is given with a Syntax error that
\* cites the 1-based row of the line and the column offset of the offending
\* character exactly when the line has an offending character (a character
\* of Key-state outside [A-Za-z0-9-] other than '[' and '=', or a character
\* other than '=' right after the ']' that closes the locale); otherwise it
\* returns the key, the locale tag (present iff '[' ended Key-state) and the
\* value; and parse fails with that error on the line.
C29_TokenizerSyntaxErrors ==
    AtToken =>
        LET text == doc[At].key
            parts == split_into_parts(lines[1])
        IN  /\ pc = "scan" =>
                IF Offending(text) # 0
                THEN parts = Err(Syntax(At, Offending(text) - 1))
                ELSE /\ parts.ok
                     /\ parts.val.key = KeyOf(text)
                     /\ parts.val.locale = TagOf(text)
                     /\ parts.val.value = RestOf(text)
            /\ pc = "done" =>
                IF Offending(text) # 0
                THEN result = Some(Err(Syntax(At, Offending(text) - 1)))
                ELSE ~FailedWith("Syntax")

(***************************************************************************)
(* The documents of spaces around the '=': the header, then key-value      *)
(* lines whose key ends in spaces or whose value starts with spaces        *)
(***************************************************************************)
SpacedLines ==
    {KV(k_Name, w_Foo),
     KV(k_Name, <<" ">> \o w_Foo),
     KV(k_Name, <<" ", " ">> \o w_Foo),
     KV(k_Name, <<"F", " ", "o">>),
     KV(k_Name \o <<" ">>, w_Foo),
     KV(k_Name \o <<" ">>, <<" ">> \o w_Foo),
     KVL(k_Name, w_es, <<" ">> \o w_Foo),
     KV(k_Type, <<" ">> \o w_Application),
     L_ActionA}

\* the most lines after the header in a document of spaces
MaxSpacedLines == 2

SpacedDocs ==
    {<<L_Entry>> \o d : d \in Docs(SpacedLines, MaxSpacedLines)} \cup CoverDocs

InitSpaced == InitOn(SpacedDocs)

SpecSpaced == InitSpaced /\ [][Next]_vars

\* s without its leading spaces, and without its trailing spaces
RECURSIVE WithoutLeading(_)
WithoutLeading(s) ==
    IF s # <<>> /\ Head(s) = " " THEN WithoutLeading(Tail(s)) ELSE s
RECURSIVE WithoutTrailing(_)
WithoutTrailing(s) ==
    IF s # <<>> /\ s[Len(s)] = " "
    THEN WithoutTrailing(SubSeq(s, 1, Len(s) - 1))
    ELSE s

\* the scan is at a key-value line of a document of spaces
AtSpaced ==
    /\ doc \in SpacedDocs \ CoverDocs
    /\ At <= Len(doc)
    /\ doc[At].t = "kv"

(***************************************************************************)
(* C30                                                                     *)
(***************************************************************************)
\* C30: the record the tokenizer gives for a key-value line has the key
\* without its trailing spaces and the value without its leading spaces;
\* and once a first Name line of the entry is scanned, the name holds its
\* value without the leading spaces.
C30_KeyAndValueAreTrimmed ==
    /\ (AtSpaced /\ pc = "scan") =>
           LET parts == split_into_parts(lines[1])
           IN  /\ parts.ok
               /\ parts.val.key = WithoutTrailing(doc[At].key)
               /\ parts.val.value = WithoutLeading(doc[At].val)
    /\ (doc \in SpacedDocs \ CoverDocs /\ pc # "start" /\ At > 2 /\ doc[2].t = "kv"
        /\ WithoutTrailing(doc[2].key) = k_Name) =>
           StoredAt(result_entry.name, doc[2], WithoutLeading(doc[2].val))

(***************************************************************************)
(* The documents of values: the header, then key-value lines of the entry  *)
(* and of an action whose values hold the characters that mean something   *)
(* elsewhere in a line                                                     *)
(***************************************************************************)
Values ==
    {<<"=">>,
     <<"a", "=", "b">>,
     <<"[", "x", "]">>,
     <<"]", "[">>,
     <<"#", "c">>,
     <<"a", " ", "#", ";">>,
     <<";", "a", ";", ";">>,
     <<"\\", "n", "\\", "\\", "s">>,
     <<"a", "\t", "b">>}

ValueLines ==
    {KV(k_Name, v) : v \in Values}
    \cup {KVL(k_Name, w_es, v) : v \in Values}
    \cup {KV(k_Exec, v) : v \in Values}
    \cup {L_ActionA}

\* the most lines after the header in a document of values
MaxValueLines == 2

ValueDocs ==
    {<<L_Entry>> \o d : d \in Docs(ValueLines, MaxValueLines)} \cup CoverDocs

InitValues == InitOn(ValueDocs)

SpecValues == InitValues /\ [][Next]_vars

\* line j of d is the first of its key and locale in its group
FirstOfItsKind(d, j) ==
    \A i \in 1..(j - 1) :
        ~(/\ d[i].t = "kv"
          /\ d[i].key = d[j].key
          /\ d[i].loc = d[j].loc
          /\ GroupOf(d, i) = GroupOf(d, j))

(***************************************************************************)
(* C31                                                                     *)
(***************************************************************************)
\* C31: for a line `key=value` or `key[locale]=value` the tokenizer returns
\* without error the value verbatim, every character after the '=' in
\* order, whatever the characters are ('=', '[', ']', '#', ';', backslashes
\* among them), with the key and the locale as they were before the '=';
\* and the record holds that value once the line is scanned.
C31_ValueIsVerbatim ==
    (doc \in ValueDocs \ CoverDocs /\ pc # "start") =>
        /\ (pc = "scan" /\ At <= Len(doc) /\ doc[At].t = "kv") =>
               LET parts == split_into_parts(lines[1])
               IN  /\ parts.ok
                   /\ parts.val.value = doc[At].val
                   /\ parts.val.key = doc[At].key
                   /\ parts.val.locale = doc[At].loc
        /\ \A j \in 2..(At - 1) :
               (doc[j].t = "kv" /\ FirstOfItsKind(doc, j)) =>
                   IF doc[j].key = k_Name
                   THEN StoredAt(RecordOf(doc, j).name, doc[j], doc[j].val)
                   ELSE RecordOf(doc, j).exec = Some(doc[j].val)

\* a name with '#' and ';' and an exec line with backslashes are stored
C31_Witness ==
    /\ pc = "done"
    /\ doc = <<L_Entry, KV(k_Name, <<"a", " ", "#", ";">>),
               KV(k_Exec, <<"\\", "n", "\\", "\\", "s">>)>>
    /\ At = 4
    /\ unwrap(result_entry.name).default = Some(<<"a", " ", "#", ";">>)
    /\ result_entry.exec = Some(<<"\\", "n", "\\", "\\", "s">>)

(***************************************************************************)
(* The documents of the Line Classifier: lines with spaces and tabs before *)
(* and after their text, comments, and lines with nothing but whitespace   *)
(***************************************************************************)
ClassifierLines ==
    {L_Entry,
     L_NameX,
     Raw(<<" ">> \o Render(L_NameX)),
     Raw(Render(L_NameX) \o <<" ", "\t">>),
     Raw(<<" ">> \o Render(L_ActionA) \o <<"\r">>),
     Raw(<<" ", " ">> \o Render(L_ActionA)),
     Raw(<<"\t">> \o Render(L_NameX)),
     Raw(<<"N", "#", "=", "1">>),
     L_Comment,
     Raw(<<" ", "\t", "#", "c">>),
     L_Empty,
     L_Blank,
     Raw(<<"\r">>),
     Raw(<<" ", "\t">>)}

\* the most lines in a document of the Line Classifier
MaxClassifierLines == 2

ClassifierDocs == Docs(ClassifierLines, MaxClassifierLines) \cup CoverDocs

InitClassifier == InitOn(ClassifierDocs)

SpecClassifier == InitClassifier /\ [][Next]_vars

\* text is blank: it has no character that is not whitespace
Blank(text) == \A i \in DOMAIN text : text[i] \in WhiteSpace

\* text is a comment: its first character that is not whitespace is '#'
Comment(text) ==
    \E i \in DOMAIN text :
        /\ text[i] = "#"
        /\ \A k \in 1..(i - 1) : text[k] \in WhiteSpace

\* text without its trailing whitespace and without a space at column 0
Retained(text) ==
    LET t == trim_end(text)
    IN  IF t # <<>> /\ Head(t) = " " THEN Tail(t) ELSE t

\* the texts the classifier is to keep of the lines of d, in order
RECURSIVE KeptOf(_)
KeptOf(d) ==
    IF d = <<>> THEN <<>>
    ELSE (IF Blank(Render(Head(d))) \/ Comment(Render(Head(d)))
          THEN <<>>
          ELSE <<Retained(Render(Head(d)))>>) \o KeptOf(Tail(d))

CursorAtLast ==
    AllKept(doc) =>
        /\ [g \in DOMAIN result_actions |-> result_actions[g].ref_name] =
               SubNames(doc, At - 1)
        /\ IF current_target.kind = "Action"
           THEN /\ result_actions # <<>>
                /\ current_target.index = Len(result_actions) - 1
           ELSE result_actions = <<>>

\* C34: at every step of the scan the sub-record list only grows at its
\* end (no sub-record is removed or moved), it has one sub-record for each
\* action header accepted so far, two for a ref_name given twice, and the
\* cursor, when it is at a sub-record, is at the last one, so that the
\* indexed access is in bounds.
C34_SubRecordsAppendOnly ==
    [][/\ Len(result_actions') >= Len(result_actions)
       /\ \A g \in DOMAIN result_actions :
              result_actions'[g].ref_name = result_actions[g].ref_name
       /\ CursorAtLast'
       /\ result' # Some(Panic) \/ line_type(Head(lines)) = "panic"]_vars

\* two headers of the same ref_name were accepted, and a line after the
\* second went to the second sub-record
C34_Witness ==
    /\ pc = "done"
    /\ doc = <<L_Entry, L_TypeApplication, L_NameX, L_ActionA,
               KV(k_Name, <<"N">>), L_ActionA, L_ExecY>>
    /\ Len(result_actions) = 2
    /\ result_actions[1].ref_name = result_actions[2].ref_name
    /\ current_target = Action(1)
    /\ result_actions[2].exec = Some(<<"Y">>)
    /\ is_none(result_actions[1].exec)

(***************************************************************************)
(* C35                                                                     *)
(***************************************************************************)
\* C35: parse starts with the cursor at the entry; and no step taken with
\* the cursor at a sub-record moves it back to the entry or changes the
\* primary record.
C35_CursorIsMonotonic ==
    [][/\ pc = "start" => current_target = Entry
       /\ current_target.kind = "Action" =>
              /\ current_target'.kind = "Action"
              /\ result_entry' = result_entry]_vars

\* after an action header, a vendor header and an Exec line: the cursor is
\* still at the sub-record, which has the Exec, and the entry has none
C35_Witness ==
    /\ pc = "done"
    /\ doc = <<L_Entry, L_TypeApplication, L_NameX, L_ActionA, L_Other, L_ExecY>>
    /\ Succeeded
    /\ current_target = Action(0)
    /\ is_none(result_entry.exec)
    /\ result_actions[1].exec = Some(<<"Y">>)
    /\ unwrap(result).val.entry = result_entry

(***************************************************************************)
(* The documents of the groups: a primary group with Name, Exec and Icon,  *)
(* then action headers and Name, Exec and Icon lines                       *)
(***************************************************************************)
L_IconI == KV(k_Icon, <<"I">>)

GroupLines == {L_ActionA, L_ActionB, L_NameX, L_ExecY, L_IconI}

\* the most lines after the primary group in a document of the groups
MaxGroupLines == 4

GroupDocs ==
    {<<L_Entry, L_TypeApplication, L_NameX, L_ExecY, L_IconI>> \o d :
         d \in Docs(GroupLines, MaxGroupLines)}
    \cup CoverDocs

InitGroups == InitOn(GroupDocs)

SpecGroups == InitGroups /\ [][Next]_vars

\* the step takes a key-value line with the cursor at a sub-record
TakingInSub ==
    /\ pc = "scan"
    /\ lines # <<>>
    /\ current_target.kind = "Action"
    /\ line_type(Head(lines)) = "ValPair"

(***************************************************************************)
(* C36                                                                     *)
(***************************************************************************)
\* C36: a step that takes a key-value line with the cursor at sub-record i
\* leaves the primary record and every other sub-record as they were; and
\* parse fails with RepetitiveKey on a Name, Exec or Icon line only when an
\* earlier line of the same group has the key, however many groups have it.
C36_OnlyTheCurrentSubRecord ==
    [][/\ TakingInSub =>
              /\ result_entry' = result_entry
              /\ DOMAIN result_actions' = DOMAIN result_actions
              /\ \A j \in DOMAIN result_actions :
                     j # current_target.index + 1 =>
                         result_actions'[j] = result_actions[j]
       /\ (doc \in GroupDocs \ CoverDocs /\ pc' = "done"
           /\ unwrap(result').ok = FALSE
           /\ unwrap(result').err.kind = "RepetitiveKey") =>
              Repeats(doc, Len(doc) - Len(lines') + 1)]_vars

\* Name is set in the primary group and in each of two action groups, Exec
\* in the primary group and in the second action group
C36_Witness ==
    /\ pc = "done"
    /\ doc = <<L_Entry, L_TypeApplication, L_NameX, L_ExecY, L_IconI,
               L_ActionA, L_NameX, L_ActionB, L_NameX>>
    /\ Succeeded
    /\ Len(result_actions) = 2
    /\ unwrap(result_actions[1].name).default = Some(<<"X">>)
    /\ unwrap(result_actions[2].name).default = Some(<<"X">>)
    /\ unwrap(result_entry.name).default = Some(<<"X">>)

(***************************************************************************)
(* The documents of the defaults: the header and a Type, then localized    *)
(* keys with and without a locale, and an action group                     *)
(***************************************************************************)
DefaultLines ==
    {L_NameX,
     KVL(k_Name, w_es, <<"N">>),
     KV(k_GenericName, <<"G">>),
     KVL(k_GenericName, w_es, <<"H">>),
     KVL(k_Comment, w_es, <<"C">>),
     KV(k_Keywords, <<"K">>),
     KVL(k_Keywords, w_es, <<"M">>),
     L_ActionA}

\* the most lines after the Type in a document of the defaults
MaxDefaultLines == 3

DefaultDocs ==
    {<<L_Entry, L_TypeApplication>> \o d :
         d \in Docs(DefaultLines, MaxDefaultLines)}
    \cup CoverDocs

InitDefaults == InitOn(DefaultDocs)

SpecDefaults == InitDefaults /\ [][Next]_vars

\* the localized field is absent, or has its default
Convertible(field) == is_none(field) \/ ~is_none(unwrap(field).default)

(***************************************************************************)
(* C37                                                                     *)
(***************************************************************************)
\* C37: in every result parse returns, the Name, the GenericName, the
\* Comment and the Keywords of the entry that are present have a default,
\* and every sub-record has a Name with a default.
C37_EveryDefaultIsSet ==
    (pc = "done" /\ Succeeded) =>
        /\ Convertible(unwrap(result).val.entry.name)
        /\ Convertible(unwrap(result).val.entry.generic_name)
        /\ Convertible(unwrap(result).val.entry.comment)
        /\ Convertible(unwrap(result).val.entry.keywords)
        /\ \A g \in DOMAIN unwrap(result).val.actions :
               /\ ~is_none(unwrap(result).val.actions[g].name)
               /\ Convertible(unwrap(result).val.actions[g].name)
====
